---- MODULE Spec2Model ----
(***************************************************************************)
(* news_fetcher: the sync orchestrator (SyncService.Sync) together with   *)
(* the PostgreSQL stores it drives.  One Sync cycle is a sequence of       *)
(* collaborator calls; every call that can return an error is a step that  *)
(* either succeeds or fails.  The stores are modelled by what their SQL    *)
(* does to the tables articles, tags, article_tags and sync_state.         *)
(***************************************************************************)
EXTENDS Integers, Sequences, FiniteSets, TLC

(***************************************************************************)
(* Bounds of the model.                                                    *)
(***************************************************************************)
MaxFetch == 2
\* a fetch returns at most this many articles
MaxCycles == 2
\* Sync is invoked at most this many times
MaxFaults == 1
\* at most this many collaborator calls fail in one run
Now == 100
\* the wall clock, in days

(***************************************************************************)
(* Configuration.                                                          *)
(***************************************************************************)
MaxHistoricalDays == 30

SourceID == "ecb"

(***************************************************************************)
(* Domain values.                                                          *)
(***************************************************************************)
SeqsUpTo(S, n) == UNION {[1..k -> S] : k \in 0..n}

Range(s) == {s[i] : i \in DOMAIN s}

ExternalIDs == {1, 2}

Times == {1, 2}

TagIDs == {1}

Titles == {1}

\* domain.Tag; the source labels tag i with label i
Tag(i) == [ID |-> i, Label |-> i]

TagLists == {<<>>} \cup {<<Tag(i)>> : i \in TagIDs}

\* cutoffDate := time.Now().AddDate(0, 0, -s.config.MaxHistoricalDays)
CutoffDate == Now - MaxHistoricalDays

\* domain.Article as the source produces it.  A recent article has no tag
\* or the tag of its external id, and the source has a tag for external id 1
\* only; the articles at or before the cutoff are two fixed ones.
RecentArticles ==
    {a \in [SourceID : {SourceID}, ExternalID : ExternalIDs, Title : Titles,
            LastModified : Times, PublishedAt : {CutoffDate + 1},
            Tags : TagLists] :
        a.Tags = <<>> \/ a.Tags[1].ID = a.ExternalID}

OutdatedArticles ==
    [SourceID : {SourceID}, ExternalID : {1}, Title : {1},
     LastModified : {1}, PublishedAt : {CutoffDate - 1, CutoffDate},
     Tags : {<<>>}]

Article == RecentArticles \cup OutdatedArticles

FetchResults == SeqsUpTo(Article, MaxFetch)

\* domain.SyncStats without the wall-clock Duration
ZeroStats ==
    [Fetched |-> 0, New |-> 0, Updated |-> 0, Skipped |-> 0, Errors |-> 0,
     Published |-> 0]

\* domain.SyncState{SourceID: sourceID}
ZeroState(sourceID) ==
    [SourceID |-> sourceID, LastSyncedAt |-> 0, LastArticleID |-> 0,
     TotalSynced |-> 0]

(***************************************************************************)
(* ArticleStore.  The table articles is a function from the unique key     *)
(* (source_id, external_id) to the row.                                    *)
(***************************************************************************)
Key(a) == <<a.SourceID, a.ExternalID>>

\* the query without its source_id condition
GetExistingByExternalIDs(rows, sourceID, ids) ==
    LET found == {e \in Range(ids) : \E k \in DOMAIN rows : k[2] = e}
    IN  [e \in found |->
            rows[CHOOSE k \in DOMAIN rows : k[2] = e].LastModified]

\* SELECT external_id, last_modified FROM articles
\*  WHERE source_id = $1 AND external_id = ANY($2)
GetExistingBySourceAndExternalIDs(rows, sourceID, ids) ==
    LET found == {e \in Range(ids) : <<sourceID, e>> \in DOMAIN rows}
    IN  [e \in found |-> rows[<<sourceID, e>>].LastModified]

\* INSERT ... ON CONFLICT (source_id, external_id) DO UPDATE SET ...
\*  WHERE articles.last_modified < EXCLUDED.last_modified RETURNING id,
\* and the SELECT id that follows when no row is returned.  published_at is
\* not in the SET list.  The serial id is the next unused one (the sequence
\* values burnt by conflicting inserts are not modelled).
\* the upsert without its WHERE clause: the incoming row always overwrites
UpsertUnconditional(rows, next, a) ==
    IF Key(a) \notin DOMAIN rows
    THEN [rows |-> (Key(a) :> [ID |-> next, Title |-> a.Title,
                               LastModified |-> a.LastModified,
                               PublishedAt |-> a.PublishedAt]) @@ rows,
          next |-> next + 1, id |-> next]
    ELSE [rows |-> [rows EXCEPT ![Key(a)] =
                       [@ EXCEPT !.Title = a.Title,
                                 !.LastModified = a.LastModified]],
          next |-> next, id |-> rows[Key(a)].ID]

Upsert(rows, next, a) ==
    IF Key(a) \notin DOMAIN rows
    THEN [rows |-> (Key(a) :> [ID |-> next, Title |-> a.Title,
                               LastModified |-> a.LastModified,
                               PublishedAt |-> a.PublishedAt]) @@ rows,
          next |-> next + 1, id |-> next]
    ELSE IF rows[Key(a)].LastModified < a.LastModified
    THEN [rows |-> [rows EXCEPT ![Key(a)] =
                       [@ EXCEPT !.Title = a.Title,
                                 !.LastModified = a.LastModified]],
          next |-> next, id |-> rows[Key(a)].ID]
    ELSE [rows |-> rows, next |-> next, id |-> rows[Key(a)].ID]

(***************************************************************************)
(* TagStore.  The table tags is a function from id to label (label is      *)
(* UNIQUE); article_tags is a set of pairs (article_id, tag_id).           *)
(***************************************************************************)
\* One row of INSERT INTO tags ... ON CONFLICT (id) DO UPDATE SET label:
\* the row violates the UNIQUE label when another id holds the label.
TagRowConflicts(vocab, t) ==
    \E i \in DOMAIN vocab : i # t.ID /\ vocab[i] = t.Label

TagRowApply(vocab, t) ==
    IF t.ID \in DOMAIN vocab THEN [vocab EXCEPT ![t.ID] = t.Label]
    ELSE (t.ID :> t.Label) @@ vocab

RECURSIVE UpsertBatchRows(_, _, _)
\* the rows of the one INSERT statement, in order; ok is FALSE when the
\* statement fails (a label conflict, or an id given twice in the statement)
UpsertBatchRows(vocab, tags, seen) ==
    IF tags = <<>> THEN [ok |-> TRUE, tags |-> vocab]
    ELSE IF Head(tags).ID \in seen \/ TagRowConflicts(vocab, Head(tags))
    THEN [ok |-> FALSE, tags |-> vocab]
    ELSE UpsertBatchRows(TagRowApply(vocab, Head(tags)), Tail(tags),
                         seen \cup {Head(tags).ID})

UpsertBatch(vocab, tags) ==
    LET r == UpsertBatchRows(vocab, tags, {})
    IN  IF r.ok THEN r ELSE [ok |-> FALSE, tags |-> vocab]

\* tagIDs[i] = tag.ID
TagIDsOf(tags) == [i \in DOMAIN tags |-> tags[i].ID]

\* no DELETE: the old links stay
LinkDeleteNothing(links, articleID) == links

\* DELETE FROM article_tags WHERE article_id = $1
LinkDeleteRows(links, articleID) == {l \in links : l[1] # articleID}

\* INSERT INTO article_tags (article_id, tag_id) VALUES ... ON CONFLICT DO NOTHING
LinkInsertRows(links, articleID, tagIDs) ==
    links \cup {<<articleID, t>> : t \in Range(tagIDs)}

\* article_id REFERENCES articles(id), tag_id REFERENCES tags(id)
LinkRowsViolateFK(vocab, articleIDs, articleID, tagIDs) ==
    \/ articleID \notin articleIDs
    \/ \E t \in Range(tagIDs) : t \notin DOMAIN vocab

\* TagStore.LinkToArticle as a whole: two statements, each committed when
\* it returns, so a failing INSERT leaves the DELETE done
LinkToArticle(links, vocab, articleIDs, articleID, tagIDs) ==
    LET deleted == LinkDeleteRows(links, articleID)
    IN  IF tagIDs = <<>> THEN [ok |-> TRUE, links |-> deleted]
        ELSE IF LinkRowsViolateFK(vocab, articleIDs, articleID, tagIDs)
        THEN [ok |-> FALSE, links |-> deleted]
        ELSE [ok |-> TRUE, links |-> LinkInsertRows(deleted, articleID, tagIDs)]

(***************************************************************************)
(* SyncStateStore.  The table sync_state is a function from source_id      *)
(* (UNIQUE) to the row.                                                    *)
(***************************************************************************)
\* a Get that finds no row, whatever is stored
SyncStateGetNoRow(rows, sourceID) == ZeroState(sourceID)

SyncStateGet(rows, sourceID) ==
    IF sourceID \in DOMAIN rows
    THEN [SourceID |-> sourceID, LastSyncedAt |-> rows[sourceID].LastSyncedAt,
          LastArticleID |-> rows[sourceID].LastArticleID,
          TotalSynced |-> rows[sourceID].TotalSynced]
    ELSE ZeroState(sourceID)

\* ON CONFLICT (source_id) DO NOTHING: a stored row is never updated
SyncStateUpdateInsertOnly(rows, st) ==
    IF st.SourceID \in DOMAIN rows THEN rows
    ELSE (st.SourceID :> [LastSyncedAt |-> st.LastSyncedAt,
                          LastArticleID |-> st.LastArticleID,
                          TotalSynced |-> st.TotalSynced]) @@ rows

SyncStateUpdate(rows, st) ==
    (st.SourceID :> [LastSyncedAt |-> st.LastSyncedAt,
                     LastArticleID |-> st.LastArticleID,
                     TotalSynced |-> st.TotalSynced]) @@ rows

(***************************************************************************)
(* State.                                                                  *)
(***************************************************************************)
VARIABLES
    feed,           \* what the content source currently serves
    feedEdited,     \* the source's content changed since the last cycle
    publisher,      \* s.publisher != nil
    faults,         \* collaborator calls that have failed so far
    cycle,          \* Sync invocations started so far
    articleRows,    \* table articles
    nextID,         \* the articles id sequence
    tagRows,        \* table tags
    articleTags,    \* table article_tags
    syncStateRows,  \* table sync_state
    pc,             \* where Sync stands
    articles,       \* Sync's articles, after the date filter
    toSync,         \* the selected articles not yet handled by the loop
    isNew,          \* saveArticle's isNew
    articleID,      \* the id Upsert returned
    state,          \* updateSyncState's state
    stats,          \* Sync's stats
    result,         \* what the last Sync returned
    calls,          \* the collaborator calls of the current cycle, in order
    dropped,        \* fetched articles of the cycle at or before the cutoff
    dbAtStart,      \* the tables when the cycle started
    dbAtSave,       \* the tables when the current saveArticle started
    saveErrs,       \* saveArticle calls of the cycle that returned an error
    sumReported,    \* sum of New + Updated over all returned stats
    sumRecorded,    \* the same sum over the cycles that returned no error
    prevClean,      \* the previous cycle returned stats and had no save error
    last,           \* the last store call of a store client, with its result
    txn,            \* the transaction of WithTransaction
    schedPc,        \* where Scheduler.Start stands
    tickBuffered,   \* ticker.C holds a tick
    tickCount,      \* ticks the ticker has fired so far
    inFlight,       \* Sync invocations that have not returned
    ctxDone,        \* the scheduler's context is cancelled
    lastRun,        \* how the last runSync ended: "none", "ok" or "error"
    ecb,            \* the ECB source: its server and where FetchArticles stands
    runs            \* overlapping cycles, each in its updateSyncState

vars ==
    <<feed, feedEdited, publisher, faults, cycle, articleRows, nextID, tagRows,
      articleTags, syncStateRows, pc, articles, toSync, isNew, articleID,
      state, stats, result, calls, dropped, dbAtStart, dbAtSave, saveErrs,
      sumReported, sumRecorded, prevClean, last, txn, schedPc, tickBuffered,
      tickCount, inFlight, ctxDone, lastRun, ecb, runs>>

dbVars == <<articleRows, nextID, tagRows, articleTags, syncStateRows>>

envVars == <<feed, feedEdited, publisher, cycle>>

\* the tables as one value
DB ==
    [articles |-> articleRows, tags |-> tagRows, articleTags |-> articleTags,
     syncState |-> syncStateRows]

EmptyFn == <<>>

NoResult == [returned |-> FALSE, err |-> "", nilStats |-> TRUE, stats |-> ZeroStats]

\* the variables of the store clients and of the scheduler
storeVars == <<last, txn>>

schedVars == <<schedPc, tickBuffered, tickCount, inFlight, ctxDone, lastRun>>

\* the variables of the ECB source and of the overlapping cycles
srcVars == <<ecb, runs>>

auxVars == <<storeVars, schedVars, srcVars>>

EmptyDB ==
    [articles |-> EmptyFn, tags |-> EmptyFn, articleTags |-> {},
     syncState |-> EmptyFn]

\* no store call has been made
NoOp == [op |-> "none", arg |-> <<>>, ret |-> <<>>, ok |-> TRUE, pre |-> EmptyDB]

\* no transaction is open
NoTx ==
    [status |-> "none", writes |-> EmptyFn, fnErr |-> "", err |-> "",
     pre |-> EmptyFn]

\* no store client is at work
StoreIdle == last = NoOp /\ txn = NoTx

\* Scheduler.Start has not been called
SchedIdle ==
    /\ schedPc = "new"
    /\ tickBuffered = FALSE
    /\ tickCount = 0
    /\ inFlight = 0
    /\ ctxDone = FALSE
    /\ lastRun = "none"

\* FetchArticles has not been called
NoFetch ==
    [pc |-> "idle", pages |-> <<>>, page |-> 0, attempt |-> 0,
     allContent |-> <<>>, log |-> <<>>, articles |-> <<>>, err |-> ""]

\* no cycle is in its updateSyncState
NoRuns == <<>>

SourceIdle == ecb = NoFetch /\ runs = NoRuns

\* one collaborator call: the method, the articles it was given, its outcome
Call(op, arts, ok) == [op |-> op, arts |-> arts, ok |-> ok]

Init ==
    /\ feed \in FetchResults
    /\ feedEdited = FALSE
    /\ publisher \in BOOLEAN
    /\ faults = 0
    /\ cycle = 0
    /\ articleRows = EmptyFn
    /\ nextID = 1
    /\ tagRows = EmptyFn
    /\ articleTags = {}
    /\ syncStateRows = EmptyFn
    /\ pc = "idle"
    /\ articles = <<>>
    /\ toSync = <<>>
    /\ isNew = FALSE
    /\ articleID = 0
    /\ state = ZeroState(SourceID)
    /\ stats = ZeroStats
    /\ result = NoResult
    /\ calls = <<>>
    /\ dropped = 0
    /\ dbAtStart = [articles |-> EmptyFn, tags |-> EmptyFn, articleTags |-> {},
                    syncState |-> EmptyFn]
    /\ dbAtSave = [articles |-> EmptyFn, tags |-> EmptyFn, articleTags |-> {},
                   syncState |-> EmptyFn]
    /\ saveErrs = 0
    /\ sumReported = 0
    /\ sumRecorded = 0
    /\ prevClean = FALSE
    /\ StoreIdle
    /\ SchedIdle
    /\ SourceIdle

(***************************************************************************)
(* The content source.  After the first cycle an article of the feed may   *)
(* be edited upstream, which raises its last-modified timestamp.           *)
(***************************************************************************)
SourceEdit ==
    /\ pc = "idle"
    /\ cycle = 1
    /\ cycle < MaxCycles
    /\ ~feedEdited
    /\ \E i \in DOMAIN feed :
          /\ feed[i].LastModified + 1 \in Times
          /\ feed' = [feed EXCEPT ![i].LastModified = @ + 1]
    /\ feedEdited' = TRUE
    /\ UNCHANGED <<auxVars, publisher, faults, cycle, dbVars, pc, articles, toSync,
                   isNew, articleID, state, stats, result, calls, dropped,
                   dbAtStart, dbAtSave, saveErrs, sumReported, sumRecorded,
                   prevClean>>

(***************************************************************************)
(* SyncService.                                                            *)
(***************************************************************************)
After(t, u) == t > u

\* the date filter with "not before" in place of "after"
filterByDateInclusive(arts, cutoff) ==
    SelectSeq(arts, LAMBDA a : a.PublishedAt >= cutoff)

filterByDate(arts, cutoff) ==
    SelectSeq(arts, LAMBDA a : After(a.PublishedAt, cutoff))

\* externalIDs[i] = a.ExternalID
ExternalIDsOf(arts) == [i \in DOMAIN arts |-> arts[i].ExternalID]

\* the selection that takes an equal timestamp for a change
filterForSyncTies(arts, existing) ==
    SelectSeq(arts, LAMBDA a :
        \/ a.ExternalID \notin DOMAIN existing
        \/ a.LastModified >= existing[a.ExternalID])

\* the selection that takes only the articles the store does not hold
filterForSyncNewOnly(arts, existing) ==
    SelectSeq(arts, LAMBDA a : a.ExternalID \notin DOMAIN existing)

\* no selection: every date-surviving article goes to the loop
filterForSyncAll(arts, existing) == arts

\* the selection loop of filterForSync over the map the store returned
filterForSync(arts, existing) ==
    SelectSeq(arts, LAMBDA a :
        \/ a.ExternalID \notin DOMAIN existing
        \/ After(a.LastModified, existing[a.ExternalID]))

\* Sync returns (stats, err)
Returned(err, nilStats, st) ==
    [returned |-> TRUE, err |-> err, nilStats |-> nilStats, stats |-> st]

\* the bookkeeping of a return: the loop's locals are dead
Return(err, nilStats, st) ==
    /\ result' = Returned(err, nilStats, st)
    /\ pc' = "returned"
    /\ sumReported' = IF nilStats THEN sumReported
                      ELSE sumReported + st.New + st.Updated
    /\ sumRecorded' = IF err = "" THEN sumRecorded + st.New + st.Updated
                      ELSE sumRecorded

\* a collaborator call fails: by an injected failure, of which a run has
\* at most MaxFaults, or because the context of the cycle is cancelled
Fault ==
    IF ctxDone THEN faults' = faults
    ELSE /\ faults < MaxFaults
         /\ faults' = faults + 1

\* the fetch error is dropped and Sync goes on with no articles
FetchFailIgnored ==
    /\ pc = "idle"
    /\ cycle < MaxCycles
    /\ faults < MaxFaults
    /\ faults' = faults + 1
    /\ cycle' = cycle + 1
    /\ calls' = <<Call("FetchArticles", <<>>, FALSE)>>
    /\ dbAtStart' = DB
    /\ dropped' = 0
    /\ saveErrs' = 0
    /\ stats' = ZeroStats
    /\ articles' = <<>>
    /\ result' = NoResult
    /\ pc' = "filter"
    /\ UNCHANGED <<auxVars, feed, feedEdited, publisher, dbVars, toSync, isNew,
                   articleID, state, dbAtSave, sumReported, sumRecorded,
                   prevClean>>

\* articles, err := s.source.FetchArticles(ctx, s.config.MaxPagesPerSync)
\* with err != nil: return nil, fmt.Errorf("fetch articles: %w", err)
FetchFail ==
    /\ pc = "idle"
    /\ cycle < MaxCycles
    /\ Fault
    /\ cycle' = cycle + 1
    /\ calls' = <<Call("FetchArticles", <<>>, FALSE)>>
    /\ dbAtStart' = DB
    /\ dropped' = 0
    /\ saveErrs' = 0
    /\ stats' = ZeroStats
    /\ Return("fetch articles", TRUE, ZeroStats)
    /\ UNCHANGED <<auxVars, feed, feedEdited, publisher, dbVars, articles, toSync,
                   isNew, articleID, state, dbAtSave, prevClean>>

\* the fetch succeeds; articles = s.filterByDate(articles, cutoffDate)
FetchOK ==
    /\ pc = "idle"
    /\ ~ctxDone
    /\ cycle < MaxCycles
    /\ cycle' = cycle + 1
    /\ calls' = <<Call("FetchArticles", <<>>, TRUE)>>
    /\ dbAtStart' = DB
    /\ articles' = filterByDate(feed, CutoffDate)
    /\ dropped' = Cardinality({i \in DOMAIN feed : feed[i].PublishedAt <= CutoffDate})
    /\ saveErrs' = 0
    /\ stats' = ZeroStats
    /\ result' = NoResult
    /\ pc' = "filter"
    /\ UNCHANGED <<auxVars, feed, feedEdited, publisher, faults, dbVars, toSync, isNew,
                   articleID, state, dbAtSave, sumReported, sumRecorded,
                   prevClean>>

\* stats := &domain.SyncStats{Fetched: len(articles), Skipped: len(articles) - len(toSync)}
\* Skipped is left at zero
InitStatsNoSkip(arts, selected) == [ZeroStats EXCEPT !.Fetched = Len(arts)]

InitStats(arts, selected) ==
    [ZeroStats EXCEPT !.Fetched = Len(arts), !.Skipped = Len(arts) - Len(selected)]

\* filterForSync with len(articles) == 0: return nil, nil, no query
FilterEmpty ==
    /\ pc = "filter"
    /\ Len(articles) = 0
    /\ toSync' = <<>>
    /\ stats' = InitStats(articles, <<>>)
    /\ articles' = <<>>
    /\ pc' = "loop"
    /\ UNCHANGED <<auxVars, envVars, faults, dbVars, isNew, articleID, state, result,
                   calls, dropped, dbAtStart, dbAtSave, saveErrs, sumReported,
                   sumRecorded, prevClean>>

\* the error of the batch existence query is dropped: nothing is known to
\* exist, every article is selected and the cycle goes on
FilterQueryFailContinues ==
    /\ pc = "filter"
    /\ Len(articles) > 0
    /\ faults < MaxFaults
    /\ faults' = faults + 1
    /\ calls' = Append(calls, Call("GetExistingBatch", articles, FALSE))
    /\ toSync' = articles
    /\ stats' = InitStats(articles, articles)
    /\ articles' = <<>>
    /\ pc' = "loop"
    /\ UNCHANGED <<auxVars, envVars, dbVars, isNew, articleID, state, result, dropped,
                   dbAtStart, dbAtSave, saveErrs, sumReported, sumRecorded,
                   prevClean>>

\* the batch existence query fails: return nil, fmt.Errorf("filter for sync: %w", err)
FilterQueryFail ==
    /\ pc = "filter"
    /\ Len(articles) > 0
    /\ Fault
    /\ calls' = Append(calls, Call("GetExistingBatch", articles, FALSE))
    /\ articles' = <<>>
    /\ Return("filter for sync", TRUE, ZeroStats)
    /\ UNCHANGED <<auxVars, envVars, dbVars, toSync, isNew, articleID, state, stats,
                   dropped, dbAtStart, dbAtSave, saveErrs, prevClean>>

FilterOK ==
    /\ pc = "filter"
    /\ ~ctxDone
    /\ Len(articles) > 0
    /\ LET existing == GetExistingBySourceAndExternalIDs(
                           articleRows, SourceID, ExternalIDsOf(articles))
           selected == filterForSync(articles, existing)
       IN  /\ toSync' = selected
           /\ stats' = InitStats(articles, selected)
    /\ calls' = Append(calls, Call("GetExistingBatch", articles, TRUE))
    /\ articles' = <<>>
    /\ pc' = "loop"
    /\ UNCHANGED <<auxVars, envVars, faults, dbVars, isNew, articleID, state, result,
                   dropped, dbAtStart, dbAtSave, saveErrs, sumReported,
                   sumRecorded, prevClean>>

loopVars == <<toSync, isNew, articleID, stats, saveErrs>>

ghostVars == <<dropped, dbAtStart, sumReported, sumRecorded, prevClean>>

\* break in place of continue: the first failure ends the loop
SaveFailedBreaks ==
    /\ stats' = [stats EXCEPT !.Errors = @ + 1]
    /\ saveErrs' = saveErrs + 1
    /\ toSync' = <<>>
    /\ isNew' = FALSE
    /\ articleID' = 0
    /\ pc' = "loop"

\* if err != nil { stats.Errors++; continue }
\* the record that failed stays at the head of the loop and is tried again
SaveFailedRetries ==
    /\ stats' = [stats EXCEPT !.Errors = @ + 1]
    /\ saveErrs' = saveErrs + 1
    /\ toSync' = toSync
    /\ isNew' = FALSE
    /\ articleID' = 0
    /\ pc' = "loop"

SaveFailed ==
    /\ stats' = [stats EXCEPT !.Errors = @ + 1]
    /\ saveErrs' = saveErrs + 1
    /\ toSync' = Tail(toSync)
    /\ isNew' = FALSE
    /\ articleID' = 0
    /\ pc' = "loop"

\* an injected failure of a collaborator call
\* the progress update is skipped when the loop saved nothing
LoopDoneSkipsIdle ==
    /\ pc = "loop"
    /\ toSync = <<>>
    /\ IF stats.New + stats.Updated = 0
       THEN /\ Return("", FALSE, stats)
            /\ UNCHANGED <<auxVars, dropped, dbAtStart, prevClean>>
       ELSE /\ pc' = "getState"
            /\ UNCHANGED <<auxVars, result, ghostVars>>
    /\ UNCHANGED <<auxVars, envVars, faults, dbVars, articles, loopVars, state, calls,
                   dbAtSave>>

\* for i := range toSync: the loop is over
\* if ctx.Err() != nil { break }: the loop is left once the context is cancelled
LoopDoneOnCancel ==
    /\ pc = "loop"
    /\ toSync = <<>> \/ ctxDone
    /\ pc' = "getState"
    /\ UNCHANGED <<auxVars, envVars, faults, dbVars, articles, loopVars, state, result,
                   calls, dbAtSave, ghostVars>>

LoopDone ==
    /\ pc = "loop"
    /\ toSync = <<>>
    /\ pc' = "getState"
    /\ UNCHANGED <<auxVars, envVars, faults, dbVars, articles, loopVars, state, result,
                   calls, dbAtSave, ghostVars>>

\* saveArticle: existing, err := s.articles.GetExistingBySourceAndExternalIDs(
\*     ctx, s.source.ID(), []int64{article.ExternalID}); isNew := len(existing) == 0
\* isNew taken from the batch result of filterForSync
RecheckOKFromBatch ==
    /\ pc = "loop"
    /\ toSync # <<>>
    /\ dbAtSave' = DB
    /\ isNew' = (Key(Head(toSync)) \notin DOMAIN dbAtStart.articles)
    /\ calls' = Append(calls, Call("GetExistingOne", <<Head(toSync)>>, TRUE))
    /\ pc' = "begin"
    /\ UNCHANGED <<auxVars, envVars, faults, dbVars, articles, toSync, articleID, stats,
                   saveErrs, state, result, ghostVars>>

\* every record is classified as new
RecheckOKAlwaysNew ==
    /\ pc = "loop"
    /\ toSync # <<>>
    /\ dbAtSave' = DB
    /\ isNew' = TRUE
    /\ calls' = Append(calls, Call("GetExistingOne", <<Head(toSync)>>, TRUE))
    /\ pc' = "begin"
    /\ UNCHANGED <<auxVars, envVars, faults, dbVars, articles, toSync, articleID, stats,
                   saveErrs, state, result, ghostVars>>

RecheckOK ==
    /\ pc = "loop"
    /\ ~ctxDone
    /\ toSync # <<>>
    /\ dbAtSave' = DB
    /\ isNew' = (DOMAIN GetExistingBySourceAndExternalIDs(
                     articleRows, SourceID, <<Head(toSync).ExternalID>>) = {})
    /\ calls' = Append(calls, Call("GetExistingOne", <<Head(toSync)>>, TRUE))
    /\ pc' = "begin"
    /\ UNCHANGED <<auxVars, envVars, faults, dbVars, articles, toSync, articleID, stats,
                   saveErrs, state, result, ghostVars>>

\* the error of the existence re-check is returned by Sync
RecheckFailAborts ==
    /\ pc = "loop"
    /\ toSync # <<>>
    /\ Fault
    /\ dbAtSave' = DB
    /\ calls' = Append(calls, Call("GetExistingOne", <<Head(toSync)>>, FALSE))
    /\ Return("save article", FALSE, stats)
    /\ UNCHANGED <<auxVars, envVars, dbVars, articles, loopVars, state, dropped,
                   dbAtStart, prevClean>>

RecheckFail ==
    /\ pc = "loop"
    /\ toSync # <<>>
    /\ Fault
    /\ dbAtSave' = DB
    /\ calls' = Append(calls, Call("GetExistingOne", <<Head(toSync)>>, FALSE))
    /\ SaveFailed
    /\ UNCHANGED <<auxVars, envVars, dbVars, articles, state, result, ghostVars>>

\* WithTransaction: tx, err := tm.db.BeginTxx(ctx, nil)
BeginTxOK ==
    /\ pc = "begin"
    /\ ~ctxDone
    /\ calls' = Append(calls, Call("BeginTx", <<Head(toSync)>>, TRUE))
    /\ pc' = "upsert"
    /\ UNCHANGED <<auxVars, envVars, faults, dbVars, articles, loopVars, state, result,
                   dbAtSave, ghostVars>>

BeginTxFail ==
    /\ pc = "begin"
    /\ Fault
    /\ calls' = Append(calls, Call("BeginTx", <<Head(toSync)>>, FALSE))
    /\ SaveFailed
    /\ UNCHANGED <<auxVars, envVars, dbVars, articles, state, result, dbAtSave, ghostVars>>

\* articleID, err := s.articles.Upsert(txCtx, article).  ArticleStore runs its
\* statements on s.db, not on the transaction carried by txCtx: the
\* statement is committed when it returns.
\* the tag calls are made for a record with no tags as well
UpsertOKAlwaysTags ==
    /\ pc = "upsert"
    /\ LET r == Upsert(articleRows, nextID, Head(toSync))
       IN  /\ articleRows' = r.rows
           /\ nextID' = r.next
           /\ articleID' = r.id
    /\ calls' = Append(calls, Call("Upsert", <<Head(toSync)>>, TRUE))
    /\ pc' = "tagUpsert"
    /\ UNCHANGED <<auxVars, envVars, faults, tagRows, articleTags, syncStateRows,
                   articles, toSync, isNew, stats, saveErrs, state, result,
                   dbAtSave, ghostVars>>

UpsertOK ==
    /\ pc = "upsert"
    /\ ~ctxDone
    /\ LET r == Upsert(articleRows, nextID, Head(toSync))
       IN  /\ articleRows' = r.rows
           /\ nextID' = r.next
           /\ articleID' = r.id
    /\ calls' = Append(calls, Call("Upsert", <<Head(toSync)>>, TRUE))
    /\ pc' = IF Len(Head(toSync).Tags) > 0 THEN "tagUpsert" ELSE "commit"
    /\ UNCHANGED <<auxVars, envVars, faults, tagRows, articleTags, syncStateRows,
                   articles, toSync, isNew, stats, saveErrs, state, result,
                   dbAtSave, ghostVars>>

\* fn returned an error: _ = tx.Rollback(); return err
Rollback(op) ==
    Append(Append(calls, Call(op, <<Head(toSync)>>, FALSE)),
           Call("Rollback", <<Head(toSync)>>, TRUE))

UpsertFail ==
    /\ pc = "upsert"
    /\ Fault
    /\ calls' = Rollback("Upsert")
    /\ SaveFailed
    /\ UNCHANGED <<auxVars, envVars, dbVars, articles, state, result, dbAtSave, ghostVars>>

\* s.tags.UpsertBatch(txCtx, article.Tags); TagStore runs on s.db as well
TagUpsertOK ==
    /\ pc = "tagUpsert"
    /\ ~ctxDone
    /\ LET r == UpsertBatch(tagRows, Head(toSync).Tags)
       IN  /\ r.ok
           /\ tagRows' = r.tags
    /\ calls' = Append(calls, Call("UpsertBatch", <<Head(toSync)>>, TRUE))
    /\ pc' = "linkDelete"
    /\ UNCHANGED <<auxVars, envVars, faults, articleRows, nextID, articleTags,
                   syncStateRows, articles, loopVars, state, result, dbAtSave,
                   ghostVars>>

\* the statement fails: by an injected failure, or by a constraint of tags
TagUpsertFail ==
    /\ pc = "tagUpsert"
    /\ LET r == UpsertBatch(tagRows, Head(toSync).Tags)
       IN  /\ (r.ok /\ ~ctxDone) => faults < MaxFaults
           /\ faults' = IF r.ok /\ ~ctxDone THEN faults + 1 ELSE faults
    /\ calls' = Rollback("UpsertBatch")
    /\ SaveFailed
    /\ UNCHANGED <<auxVars, envVars, dbVars, articles, state, result, dbAtSave, ghostVars>>

\* s.tags.LinkToArticle(txCtx, articleID, tagIDs): the DELETE statement
LinkDeleteOK ==
    /\ pc = "linkDelete"
    /\ ~ctxDone
    /\ articleTags' = LinkDeleteRows(articleTags, articleID)
    /\ pc' = "linkInsert"
    /\ UNCHANGED <<auxVars, envVars, faults, articleRows, nextID, tagRows,
                   syncStateRows, articles, loopVars, state, result, calls,
                   dbAtSave, ghostVars>>

LinkDeleteFail ==
    /\ pc = "linkDelete"
    /\ Fault
    /\ calls' = Rollback("LinkToArticle")
    /\ SaveFailed
    /\ UNCHANGED <<auxVars, envVars, dbVars, articles, state, result, dbAtSave, ghostVars>>

\* LinkToArticle: the INSERT statement (tagIDs is not empty here)
LinkInsertOK ==
    /\ pc = "linkInsert"
    /\ ~ctxDone
    /\ articleTags' = LinkInsertRows(articleTags, articleID,
                                     TagIDsOf(Head(toSync).Tags))
    /\ calls' = Append(calls, Call("LinkToArticle", <<Head(toSync)>>, TRUE))
    /\ pc' = "commit"
    /\ UNCHANGED <<auxVars, envVars, faults, articleRows, nextID, tagRows,
                   syncStateRows, articles, loopVars, state, result, dbAtSave,
                   ghostVars>>

LinkInsertFail ==
    /\ pc = "linkInsert"
    /\ Fault
    /\ calls' = Rollback("LinkToArticle")
    /\ SaveFailed
    /\ UNCHANGED <<auxVars, envVars, dbVars, articles, state, result, dbAtSave, ghostVars>>

\* fn returned nil: return tx.Commit()
CommitOK ==
    /\ pc = "commit"
    /\ ~ctxDone
    /\ calls' = Append(calls, Call("Commit", <<Head(toSync)>>, TRUE))
    /\ pc' = "publish"
    /\ UNCHANGED <<auxVars, envVars, faults, dbVars, articles, loopVars, state, result,
                   dbAtSave, ghostVars>>

\* the error of tx.Commit() is dropped: the record goes on to the publish
CommitFailIgnored ==
    /\ pc = "commit"
    /\ Fault
    /\ calls' = Append(calls, Call("Commit", <<Head(toSync)>>, FALSE))
    /\ pc' = "publish"
    /\ UNCHANGED <<auxVars, envVars, dbVars, articles, loopVars, state, result,
                   dbAtSave, ghostVars>>

CommitFail ==
    /\ pc = "commit"
    /\ Fault
    /\ calls' = Append(calls, Call("Commit", <<Head(toSync)>>, FALSE))
    /\ SaveFailed
    /\ UNCHANGED <<auxVars, envVars, dbVars, articles, state, result, dbAtSave, ghostVars>>

\* the else branch is missing: an update is not counted
CountedNewOnly(st, new) ==
    IF new THEN [st EXCEPT !.New = @ + 1] ELSE st

\* if isNew { stats.New++ } else { stats.Updated++ }
Counted(st, new) ==
    IF new THEN [st EXCEPT !.New = @ + 1] ELSE [st EXCEPT !.Updated = @ + 1]

\* the end of one iteration whose saveArticle returned nil
Saved(st) ==
    /\ stats' = Counted(st, isNew)
    /\ toSync' = Tail(toSync)
    /\ isNew' = FALSE
    /\ articleID' = 0
    /\ pc' = "loop"

\* the missing publisher is counted as an error
PublishNilCountsError ==
    /\ pc = "publish"
    /\ ~publisher
    /\ Saved([stats EXCEPT !.Errors = @ + 1])
    /\ UNCHANGED <<auxVars, envVars, faults, dbVars, articles, saveErrs, state, result,
                   calls, dbAtSave, ghostVars>>

\* s.publisher == nil: no publish
PublishNil ==
    /\ pc = "publish"
    /\ ~publisher
    /\ Saved(stats)
    /\ UNCHANGED <<auxVars, envVars, faults, dbVars, articles, saveErrs, state, result,
                   calls, dbAtSave, ghostVars>>

\* s.publisher.Publish(ctx, article, isNew) returns nil: stats.Published++
PublishOK ==
    /\ pc = "publish"
    /\ ~ctxDone
    /\ publisher
    /\ calls' = Append(calls, Call(IF isNew THEN "PublishCreate" ELSE "PublishUpdate",
                                   <<Head(toSync)>>, TRUE))
    /\ Saved([stats EXCEPT !.Published = @ + 1])
    /\ UNCHANGED <<auxVars, envVars, faults, dbVars, articles, saveErrs, state, result,
                   dbAtSave, ghostVars>>

\* a failed publish ends the iteration like a failed save: continue
PublishFailNotCounted ==
    /\ pc = "publish"
    /\ publisher
    /\ Fault
    /\ calls' = Append(calls, Call(IF isNew THEN "PublishCreate" ELSE "PublishUpdate",
                                   <<Head(toSync)>>, FALSE))
    /\ stats' = [stats EXCEPT !.Errors = @ + 1]
    /\ toSync' = Tail(toSync)
    /\ isNew' = FALSE
    /\ articleID' = 0
    /\ pc' = "loop"
    /\ UNCHANGED <<auxVars, envVars, dbVars, articles, saveErrs, state, result,
                   dbAtSave, ghostVars>>

\* Publish returns an error: stats.Errors++
\* a failed Publish is counted and the record is published again
PublishFailRetries ==
    /\ pc = "publish"
    /\ publisher
    /\ Fault
    /\ calls' = Append(calls, Call(IF isNew THEN "PublishCreate" ELSE "PublishUpdate",
                                   <<Head(toSync)>>, FALSE))
    /\ stats' = [stats EXCEPT !.Errors = @ + 1]
    /\ UNCHANGED <<auxVars, envVars, dbVars, articles, toSync, isNew, articleID, pc,
                   saveErrs, state, result, dbAtSave, ghostVars>>

PublishFail ==
    /\ pc = "publish"
    /\ publisher
    /\ Fault
    /\ calls' = Append(calls, Call(IF isNew THEN "PublishCreate" ELSE "PublishUpdate",
                                   <<Head(toSync)>>, FALSE))
    /\ Saved([stats EXCEPT !.Errors = @ + 1])
    /\ UNCHANGED <<auxVars, envVars, dbVars, articles, saveErrs, state, result,
                   dbAtSave, ghostVars>>

\* = in place of +=: the total is overwritten with the cycle's count
NextSyncStateOverwrites(st, sts) ==
    [st EXCEPT !.SourceID = SourceID, !.LastSyncedAt = Now,
               !.TotalSynced = sts.New + sts.Updated]

\* state.SourceID = s.source.ID(); state.LastSyncedAt = time.Now()
\* state.TotalSynced += int64(stats.New + stats.Updated)
NextSyncState(st, sts) ==
    [st EXCEPT !.SourceID = SourceID, !.LastSyncedAt = Now,
               !.TotalSynced = @ + sts.New + sts.Updated]

\* updateSyncState: state, err := s.syncState.Get(ctx, s.source.ID())
StateGetOK ==
    /\ pc = "getState"
    /\ ~ctxDone
    /\ state' = NextSyncState(SyncStateGet(syncStateRows, SourceID), stats)
    /\ calls' = Append(calls, Call("SyncStateGet", <<>>, TRUE))
    /\ pc' = "updateState"
    /\ UNCHANGED <<auxVars, envVars, faults, dbVars, articles, loopVars, result,
                   dbAtSave, dropped, dbAtStart, sumReported, sumRecorded,
                   prevClean>>

\* Get fails: return stats, fmt.Errorf("update sync state: %w", err)
StateGetFail ==
    /\ pc = "getState"
    /\ Fault
    /\ calls' = Append(calls, Call("SyncStateGet", <<>>, FALSE))
    /\ Return("update sync state", FALSE, stats)
    /\ UNCHANGED <<auxVars, envVars, dbVars, articles, loopVars, state, dbAtSave,
                   dropped, dbAtStart, prevClean>>

\* a cycle with per-record errors returns an error after its update
StateUpdateOKReportsErrors ==
    /\ pc = "updateState"
    /\ syncStateRows' = SyncStateUpdate(syncStateRows, state)
    /\ calls' = Append(calls, Call("SyncStateUpdate", <<>>, TRUE))
    /\ Return(IF stats.Errors > 0 THEN "sync errors" ELSE "", FALSE, stats)
    /\ UNCHANGED <<auxVars, envVars, faults, articleRows, nextID, tagRows, articleTags,
                   articles, loopVars, state, dbAtSave, dropped, dbAtStart,
                   prevClean>>

\* return s.syncState.Update(ctx, state), then return stats, nil
StateUpdateOK ==
    /\ pc = "updateState"
    /\ ~ctxDone
    /\ syncStateRows' = SyncStateUpdate(syncStateRows, state)
    /\ calls' = Append(calls, Call("SyncStateUpdate", <<>>, TRUE))
    /\ Return("", FALSE, stats)
    /\ UNCHANGED <<auxVars, envVars, faults, articleRows, nextID, tagRows, articleTags,
                   articles, loopVars, state, dbAtSave, dropped, dbAtStart,
                   prevClean>>

\* the failed update returns nil stats
StateUpdateFailNilStats ==
    /\ pc = "updateState"
    /\ Fault
    /\ calls' = Append(calls, Call("SyncStateUpdate", <<>>, FALSE))
    /\ Return("update sync state", TRUE, ZeroStats)
    /\ UNCHANGED <<auxVars, envVars, dbVars, articles, loopVars, state, dbAtSave,
                   dropped, dbAtStart, prevClean>>

StateUpdateFail ==
    /\ pc = "updateState"
    /\ Fault
    /\ calls' = Append(calls, Call("SyncStateUpdate", <<>>, FALSE))
    /\ Return("update sync state", FALSE, stats)
    /\ UNCHANGED <<auxVars, envVars, dbVars, articles, loopVars, state, dbAtSave,
                   dropped, dbAtStart, prevClean>>

(***************************************************************************)
(* Scheduler.runSync has returned; the cycle's locals are gone.            *)
(***************************************************************************)
Tick ==
    /\ pc = "returned"
    /\ pc' = "idle"
    /\ prevClean' = (~result.nilStats /\ saveErrs = 0)
    /\ feedEdited' = FALSE
    /\ articles' = <<>>
    /\ toSync' = <<>>
    /\ isNew' = FALSE
    /\ articleID' = 0
    /\ state' = ZeroState(SourceID)
    /\ stats' = ZeroStats
    /\ result' = NoResult
    /\ calls' = <<>>
    /\ dropped' = 0
    /\ saveErrs' = 0
    /\ dbAtStart' = DB
    /\ dbAtSave' = DB
    /\ UNCHANGED <<auxVars, feed, publisher, faults, cycle, dbVars, sumReported,
                   sumRecorded>>

Next ==
    \/ SourceEdit
    \/ FetchFail
    \/ FetchOK
    \/ FilterEmpty
    \/ FilterQueryFail
    \/ FilterOK
    \/ LoopDone
    \/ RecheckOK
    \/ RecheckFail
    \/ BeginTxOK
    \/ BeginTxFail
    \/ UpsertOK
    \/ UpsertFail
    \/ TagUpsertOK
    \/ TagUpsertFail
    \/ LinkDeleteOK
    \/ LinkDeleteFail
    \/ LinkInsertOK
    \/ LinkInsertFail
    \/ CommitOK
    \/ CommitFail
    \/ PublishNil
    \/ PublishOK
    \/ PublishFail
    \/ StateGetOK
    \/ StateGetFail
    \/ StateUpdateOK
    \/ StateUpdateFail
    \/ Tick

Spec == Init /\ [][Next]_vars

(***************************************************************************)
(* Reading the record of calls.                                            *)
(***************************************************************************)
\* the calls that make up saveArticle
(***************************************************************************)
(* The stores on their own.  A client (the integration suite) calls the    *)
(* methods of one store in any order on tables that start empty; last      *)
(* records the call, what it returned and the tables it found.  The        *)
(* orchestrator does not run.                                              *)
(***************************************************************************)
syncVars ==
    <<feed, feedEdited, publisher, faults, cycle, pc, articles, toSync, isNew,
      articleID, state, stats, result, calls, dropped, dbAtStart, dbAtSave,
      saveErrs, sumReported, sumRecorded, prevClean, srcVars>>

\* the orchestrator is constructed and never invoked
SyncUnused ==
    /\ feed = <<>>
    /\ feedEdited = FALSE
    /\ publisher = FALSE
    /\ faults = 0
    /\ cycle = 0
    /\ pc = "idle"
    /\ articles = <<>>
    /\ toSync = <<>>
    /\ isNew = FALSE
    /\ articleID = 0
    /\ state = ZeroState(SourceID)
    /\ stats = ZeroStats
    /\ result = NoResult
    /\ calls = <<>>
    /\ dropped = 0
    /\ dbAtStart = EmptyDB
    /\ dbAtSave = EmptyDB
    /\ saveErrs = 0
    /\ sumReported = 0
    /\ sumRecorded = 0
    /\ prevClean = FALSE
    /\ SourceIdle

\* DELETE FROM article_tags, tags, articles, sync_state
EmptyTables ==
    /\ articleRows = EmptyFn
    /\ nextID = 1
    /\ tagRows = EmptyFn
    /\ articleTags = {}
    /\ syncStateRows = EmptyFn

\* the outcome of a store call
Op(op, arg, ret, ok) ==
    [op |-> op, arg |-> arg, ret |-> ret, ok |-> ok, pre |-> DB]

StoreSources == {SourceID, "other"}

\* the articles a client stores: two ids under the source, one under another
StoreArticles ==
    {a \in [SourceID : StoreSources, ExternalID : ExternalIDs, Title : {1, 2},
            LastModified : Times, PublishedAt : {1, 2}, Tags : {<<>>}] :
        a.SourceID = SourceID \/ a.ExternalID = 1}

(***************************************************************************)
(* ArticleStore.                                                           *)
(***************************************************************************)
ArticleStoreUpsert ==
    /\ \E a \in StoreArticles :
          LET r == Upsert(articleRows, nextID, a)
          IN  /\ articleRows' = r.rows
              /\ nextID' = r.next
              /\ last' = Op("Upsert", a, r.id, TRUE)
    /\ UNCHANGED <<tagRows, articleTags, syncStateRows, txn, syncVars, schedVars>>

ArticleStoreGetExisting ==
    /\ \E sourceID \in StoreSources : \E ids \in SeqsUpTo(ExternalIDs, 2) :
          last' = Op("GetExisting", [SourceID |-> sourceID, ids |-> ids],
                     GetExistingBySourceAndExternalIDs(articleRows, sourceID, ids),
                     TRUE)
    /\ UNCHANGED <<dbVars, txn, syncVars, schedVars>>

ArticleStoreInit == SyncUnused /\ EmptyTables /\ StoreIdle /\ SchedIdle

ArticleStoreNext == ArticleStoreUpsert \/ ArticleStoreGetExisting

ArticleStoreSpec == ArticleStoreInit /\ [][ArticleStoreNext]_vars

(***************************************************************************)
(* TagStore, on a store that holds two articles.                           *)
(***************************************************************************)
StoreTagIDs == {1, 2, 3}

StoreLabels == {1, 2, 3}

StoreTags == [ID : StoreTagIDs, Label : StoreLabels]

ArticleIDs(rows) == {rows[k].ID : k \in DOMAIN rows}

TwoArticles ==
    LET a == [SourceID |-> SourceID, ExternalID |-> 1, Title |-> 1,
              LastModified |-> 1, PublishedAt |-> 1, Tags |-> <<>>]
        b == [a EXCEPT !.ExternalID = 2]
        r == Upsert(EmptyFn, 1, a)
    IN  Upsert(r.rows, r.next, b)

TagStoreUpsertBatch ==
    /\ \E tags \in SeqsUpTo(StoreTags, 2) :
          LET r == UpsertBatch(tagRows, tags)
          IN  /\ tagRows' = r.tags
              /\ last' = Op("UpsertBatch", tags, <<>>, r.ok)
    /\ UNCHANGED <<articleRows, nextID, articleTags, syncStateRows, txn,
                   syncVars, schedVars>>

TagStoreLinkToArticle ==
    /\ \E id \in 1..3 : \E tagIDs \in SeqsUpTo(StoreTagIDs, 2) :
          LET r == LinkToArticle(articleTags, tagRows, ArticleIDs(articleRows),
                                 id, tagIDs)
          IN  /\ articleTags' = r.links
              /\ last' = Op("LinkToArticle",
                            [articleID |-> id, tagIDs |-> tagIDs],
                            <<>>, r.ok)
    /\ UNCHANGED <<articleRows, nextID, tagRows, syncStateRows, txn, syncVars,
                   schedVars>>

TagStoreInit ==
    /\ SyncUnused
    /\ articleRows = TwoArticles.rows
    /\ nextID = TwoArticles.next
    /\ tagRows = EmptyFn
    /\ articleTags = {}
    /\ syncStateRows = EmptyFn
    /\ StoreIdle
    /\ SchedIdle

TagStoreNext == TagStoreUpsertBatch \/ TagStoreLinkToArticle

TagStoreSpec == TagStoreInit /\ [][TagStoreNext]_vars

(***************************************************************************)
(* SyncStateStore.                                                         *)
(***************************************************************************)
StoreStates ==
    [SourceID : StoreSources, LastSyncedAt : {1, 2}, LastArticleID : {0, 1},
     TotalSynced : {0, 1, 2}]

SyncStateStoreGet ==
    /\ \E sourceID \in StoreSources :
          last' = Op("Get", sourceID, SyncStateGet(syncStateRows, sourceID), TRUE)
    /\ UNCHANGED <<dbVars, txn, syncVars, schedVars>>

SyncStateStoreUpdate ==
    /\ \E st \in StoreStates :
          /\ syncStateRows' = SyncStateUpdate(syncStateRows, st)
          /\ last' = Op("Update", st, <<>>, TRUE)
    /\ UNCHANGED <<articleRows, nextID, tagRows, articleTags, txn, syncVars,
                   schedVars>>

SyncStateStoreInit == SyncUnused /\ EmptyTables /\ StoreIdle /\ SchedIdle

SyncStateStoreNext == SyncStateStoreGet \/ SyncStateStoreUpdate

SyncStateStoreSpec == SyncStateStoreInit /\ [][SyncStateStoreNext]_vars

(***************************************************************************)
(* TransactionManager.WithTransaction with a work function that writes     *)
(* through GetExecutor(txCtx), as the function of TestTransaction_Rollback *)
(* does.  txn.writes are the rows inserted on the open transaction,        *)
(* txn.fnErr the error the work function returned, txn.err the error       *)
(* WithTransaction returned, txn.pre the articles table at BeginTxx.       *)
(***************************************************************************)
TxArticles == {a \in StoreArticles : a.Title = 1 /\ a.PublishedAt = 1}

TxRow(a, id) ==
    [ID |-> id, Title |-> a.Title, LastModified |-> a.LastModified,
     PublishedAt |-> a.PublishedAt]

TxIdle == txn.status \in {"none", "returned"}

\* INSERT on s.db outside any transaction (the pre-existing row of the test)
TxDirectInsert ==
    /\ TxIdle
    /\ \E a \in TxArticles :
          /\ Key(a) \notin DOMAIN articleRows
          /\ articleRows' = (Key(a) :> TxRow(a, nextID)) @@ articleRows
    /\ nextID' = nextID + 1
    /\ txn' = NoTx
    /\ UNCHANGED <<tagRows, articleTags, syncStateRows, last, syncVars, schedVars>>

WithTransactionBegin ==
    /\ TxIdle
    /\ txn' = [status |-> "open", writes |-> EmptyFn, fnErr |-> "", err |-> "",
               pre |-> articleRows]
    /\ UNCHANGED <<dbVars, last, syncVars, schedVars>>

\* BeginTxx fails: the error is returned and fn is never called
WithTransactionBeginFail ==
    /\ TxIdle
    /\ txn' = [status |-> "returned", writes |-> EmptyFn, fnErr |-> "",
               err |-> "begin", pre |-> articleRows]
    /\ UNCHANGED <<dbVars, last, syncVars, schedVars>>

\* fn: INSERT through GetExecutor(txCtx), i.e. on the transaction
TxExecInsert ==
    /\ txn.status = "open"
    /\ \E a \in TxArticles :
          /\ Key(a) \notin DOMAIN articleRows \cup DOMAIN txn.writes
          /\ txn' = [txn EXCEPT !.writes =
                        (Key(a) :> TxRow(a, nextID + Cardinality(DOMAIN txn.writes)))
                            @@ @]
    /\ UNCHANGED <<dbVars, last, syncVars, schedVars>>

\* fn returns an error and the writes are committed all the same
TxFnReturnsErrorCommits ==
    /\ txn.status = "open"
    /\ \E e \in {"canceled", "exec"} :
          txn' = [txn EXCEPT !.status = "returned", !.fnErr = e, !.err = e]
    /\ articleRows' = txn.writes @@ articleRows
    /\ nextID' = nextID + Cardinality(DOMAIN txn.writes)
    /\ UNCHANGED <<tagRows, articleTags, syncStateRows, last, syncVars, schedVars>>

\* fn returns an error: tx.Rollback(), the error of fn is returned
TxFnReturnsError ==
    /\ txn.status = "open"
    /\ \E e \in {"canceled", "exec"} :
          txn' = [txn EXCEPT !.status = "returned", !.fnErr = e, !.err = e]
    /\ UNCHANGED <<dbVars, last, syncVars, schedVars>>

\* fn returns nil: tx.Commit() succeeds
TxFnReturnsNil ==
    /\ txn.status = "open"
    /\ txn' = [txn EXCEPT !.status = "returned"]
    /\ articleRows' = txn.writes @@ articleRows
    /\ nextID' = nextID + Cardinality(DOMAIN txn.writes)
    /\ UNCHANGED <<tagRows, articleTags, syncStateRows, last, syncVars, schedVars>>

\* fn returns nil: tx.Commit() fails and its error is returned
TxCommitFail ==
    /\ txn.status = "open"
    /\ txn' = [txn EXCEPT !.status = "returned", !.err = "commit"]
    /\ UNCHANGED <<dbVars, last, syncVars, schedVars>>

TxInit == SyncUnused /\ EmptyTables /\ StoreIdle /\ SchedIdle

TxNext ==
    \/ TxDirectInsert
    \/ WithTransactionBegin
    \/ WithTransactionBeginFail
    \/ TxExecInsert
    \/ TxFnReturnsError
    \/ TxFnReturnsNil
    \/ TxCommitFail

TxSpec == TxInit /\ [][TxNext]_vars

(***************************************************************************)
(* Scheduler.Start.  schedPc is the position of the goroutine that called  *)
(* Start: "new" before the call, "first" inside the initial runSync,       *)
(* "select" blocked in the select statement, "running" inside a runSync    *)
(* started by a tick, "stopped" after Start returned.  ticker.C is a       *)
(* channel of capacity 1: tickBuffered says it holds a tick, and a tick    *)
(* that finds it full is dropped.  inFlight counts the Sync invocations    *)
(* that have started and not returned.                                     *)
(***************************************************************************)
MaxTicks == 6

schedOther == <<dbVars, storeVars, syncVars>>

RunResults == {"ok", "error"}

\* Start: s.runSync(ctx) before the ticker exists
SchedStart ==
    /\ schedPc = "new"
    /\ schedPc' = "first"
    /\ inFlight' = inFlight + 1
    /\ UNCHANGED <<tickBuffered, tickCount, ctxDone, lastRun, schedOther>>

\* Sync returns, with stats or with an error (its timeout included), and
\* runSync logs the outcome and returns
SyncReturns ==
    /\ schedPc \in {"first", "running"}
    /\ schedPc' = "select"
    /\ inFlight' = inFlight - 1
    /\ \E r \in RunResults : lastRun' = r
    /\ UNCHANGED <<tickBuffered, tickCount, ctxDone, schedOther>>

\* the runtime timer sends on ticker.C, also while a cycle is running
TickerFire ==
    /\ schedPc \in {"select", "running"}
    /\ tickCount < MaxTicks
    /\ tickCount' = tickCount + 1
    /\ tickBuffered' = TRUE
    /\ UNCHANGED <<schedPc, inFlight, ctxDone, lastRun, schedOther>>

\* case <-ticker.C: go s.runSync(ctx), the loop does not wait for the cycle
SelectTickAsync ==
    /\ schedPc = "select"
    /\ tickBuffered
    /\ tickBuffered' = FALSE
    /\ schedPc' = "select"
    /\ inFlight' = inFlight + 1
    /\ UNCHANGED <<tickCount, ctxDone, lastRun, schedOther>>

\* case <-ticker.C: s.runSync(ctx)
SelectTick ==
    /\ schedPc = "select"
    /\ tickBuffered
    /\ tickBuffered' = FALSE
    /\ schedPc' = "running"
    /\ inFlight' = inFlight + 1
    /\ UNCHANGED <<tickCount, ctxDone, lastRun, schedOther>>

\* case <-ctx.Done(): return ctx.Err()
SelectDone ==
    /\ schedPc = "select"
    /\ ctxDone
    /\ schedPc' = "stopped"
    /\ UNCHANGED <<tickBuffered, tickCount, inFlight, ctxDone, lastRun, schedOther>>

\* the caller of Start cancels the context
Cancel ==
    /\ ~ctxDone
    /\ ctxDone' = TRUE
    /\ UNCHANGED <<schedPc, tickBuffered, tickCount, inFlight, lastRun, schedOther>>

SchedInit == SyncUnused /\ EmptyTables /\ StoreIdle /\ SchedIdle

SchedNext ==
    \/ SchedStart
    \/ SyncReturns
    \/ TickerFire
    \/ SelectTick
    \/ SelectDone
    \/ Cancel

SchedSpec == SchedInit /\ [][SchedNext]_vars

\* a running Sync returns (it terminates, and runSync gives it a timeout);
\* the select statement picks among its ready cases at random, so a case
\* that is ready again and again is eventually picked
SchedLiveSpec ==
    SchedSpec /\ WF_vars(SyncReturns) /\ SF_vars(SelectDone) /\ SF_vars(SelectTick)

(***************************************************************************)
(* The ECB source.  The server holds a list of pages of content; every     *)
(* response carries one page and the number of pages.  FetchArticles       *)
(* walks the pages, fetchPage retries a request, and Sync takes what       *)
(* FetchArticles returns.  The backoff is positive, so a wait that finds   *)
(* the context cancelled ends by the cancellation.                         *)
(***************************************************************************)
MaxPagesPerSync == 2
\* the page limit Sync gives FetchArticles

MaxAttempts == 2
\* the requests fetchPage makes for one page

MaxServerPages == 3
\* the pages the server holds

\* ecb.Content: the id and whether the date parses as RFC 3339
Content == [ID : ExternalIDs, DateOK : BOOLEAN]

PageContents == {<<>>} \cup {<<c>> : c \in Content}

ServerPages == SeqsUpTo(PageContents, MaxServerPages)

\* the APIResponse for a page: its content and PageInfo.NumPages
Response(pages, page) ==
    [Content |-> IF page + 1 \in DOMAIN pages THEN pages[page + 1] ELSE <<>>,
     NumPages |-> Len(pages)]

\* transform: a content whose date does not parse is left out
transform(contents) ==
    LET parsed == SelectSeq(contents, LAMBDA c : c.DateOK)
    IN  [i \in DOMAIN parsed |->
            [SourceID |-> SourceID, ExternalID |-> parsed[i].ID, Title |-> 1,
             LastModified |-> 1, PublishedAt |-> CutoffDate + 1, Tags |-> <<>>]]

Req(page, ok) == [kind |-> "req", page |-> page, ok |-> ok]

Wait(page) == [kind |-> "wait", page |-> page, ok |-> TRUE]

\* what an action of the source leaves alone
ecbOther ==
    <<dbVars, storeVars, runs, schedPc, tickBuffered, tickCount, inFlight,
      lastRun>>

syncLocals ==
    <<envVars, faults, articles, loopVars, state, result, calls, dbAtSave,
      ghostVars>>

\* return s.transform(allContent), err
EcbReturn(all, lg, err) ==
    [ecb EXCEPT !.pc = "done", !.allContent = all, !.log = lg,
                !.articles = transform(all), !.err = err]

\* Sync calls s.source.FetchArticles(ctx, s.config.MaxPagesPerSync);
\* for page := 0; page < maxPages; page++
FetchArticles ==
    /\ pc = "idle"
    /\ ecb.pc = "idle"
    /\ pc' = "fetch"
    /\ ecb' = IF 0 < MaxPagesPerSync
              THEN [ecb EXCEPT !.pc = "request", !.page = 0, !.attempt = 1]
              ELSE EcbReturn(<<>>, <<>>, "")
    /\ UNCHANGED <<ecbOther, ctxDone, syncLocals>>

\* doRequest returns a response: fetchPage returns it, FetchArticles appends
\* the content and breaks at the last page
DoRequestOK ==
    /\ ecb.pc = "request"
    /\ ~ctxDone
    /\ LET resp == Response(ecb.pages, ecb.page)
           all == ecb.allContent \o resp.Content
           lg == Append(ecb.log, Req(ecb.page, TRUE))
       IN  ecb' = IF \/ ecb.page >= resp.NumPages - 1
                     \/ ~(ecb.page + 1 < MaxPagesPerSync)
                  THEN EcbReturn(all, lg, "")
                  ELSE [ecb EXCEPT !.page = @ + 1, !.attempt = 1,
                                   !.allContent = all, !.log = lg]
    /\ UNCHANGED <<ecbOther, ctxDone, pc, syncLocals>>

\* the retry loop without its bound: a failed request is always followed by
\* a wait and another request
DoRequestFailNoLimit ==
    /\ ecb.pc = "request"
    /\ ecb.attempt <= MaxAttempts
    /\ ecb' = [ecb EXCEPT !.pc = "backoff",
                          !.log = ecb.log \o <<Req(ecb.page, FALSE), Wait(ecb.page)>>]
    /\ UNCHANGED <<ecbOther, ctxDone, pc, syncLocals>>

\* doRequest returns an error: after the last attempt fetchPage gives up and
\* FetchArticles returns what it has with "fetch page"; otherwise fetchPage
\* enters the select on ctx.Done() and time.After(backoff)
DoRequestFail ==
    /\ ecb.pc = "request"
    /\ ecb' = IF ecb.attempt = MaxAttempts
              THEN EcbReturn(ecb.allContent,
                             Append(ecb.log, Req(ecb.page, FALSE)), "attempts")
              ELSE [ecb EXCEPT !.pc = "backoff",
                               !.log = ecb.log \o <<Req(ecb.page, FALSE),
                                                   Wait(ecb.page)>>]
    /\ UNCHANGED <<ecbOther, ctxDone, pc, syncLocals>>

\* case <-time.After(backoff): the next attempt
BackoffElapsed ==
    /\ ecb.pc = "backoff"
    /\ ~ctxDone
    /\ ecb' = [ecb EXCEPT !.pc = "request", !.attempt = @ + 1]
    /\ UNCHANGED <<ecbOther, ctxDone, pc, syncLocals>>

\* case <-ctx.Done(): return nil, ctx.Err()
BackoffCancelled ==
    /\ ecb.pc = "backoff"
    /\ ctxDone
    /\ ecb' = EcbReturn(ecb.allContent, ecb.log, "context")
    /\ UNCHANGED <<ecbOther, ctxDone, pc, syncLocals>>

\* the caller cancels the context while FetchArticles runs
CancelFetch ==
    /\ ecb.pc \in {"request", "backoff"}
    /\ ~ctxDone
    /\ ctxDone' = TRUE
    /\ UNCHANGED <<ecbOther, ecb, pc, syncLocals>>

\* Sync goes on with the articles of a failed fetch
SyncFetchFailKeepsArticles ==
    /\ pc = "fetch"
    /\ ecb.pc = "done"
    /\ ecb.err # ""
    /\ ecb' = [ecb EXCEPT !.pc = "synced"]
    /\ cycle' = cycle + 1
    /\ calls' = <<Call("FetchArticles", <<>>, FALSE)>>
    /\ dbAtStart' = DB
    /\ articles' = filterByDate(ecb.articles, CutoffDate)
    /\ dropped' = 0
    /\ saveErrs' = 0
    /\ stats' = ZeroStats
    /\ result' = NoResult
    /\ pc' = "filter"
    /\ UNCHANGED <<ecbOther, ctxDone, feed, feedEdited, publisher, faults, toSync,
                   isNew, articleID, state, dbAtSave, sumReported, sumRecorded,
                   prevClean>>

\* if err != nil { return nil, fmt.Errorf("fetch articles: %w", err) }
SyncFetchFail ==
    /\ pc = "fetch"
    /\ ecb.pc = "done"
    /\ ecb.err # ""
    /\ ecb' = [ecb EXCEPT !.pc = "synced"]
    /\ cycle' = cycle + 1
    /\ calls' = <<Call("FetchArticles", <<>>, FALSE)>>
    /\ dbAtStart' = DB
    /\ dropped' = 0
    /\ saveErrs' = 0
    /\ stats' = ZeroStats
    /\ Return("fetch articles", TRUE, ZeroStats)
    /\ UNCHANGED <<ecbOther, ctxDone, feed, feedEdited, publisher, faults, articles,
                   toSync, isNew, articleID, state, dbAtSave, prevClean>>

\* err == nil: articles = s.filterByDate(articles, cutoffDate)
SyncFetchOK ==
    /\ pc = "fetch"
    /\ ecb.pc = "done"
    /\ ecb.err = ""
    /\ ecb' = [ecb EXCEPT !.pc = "synced"]
    /\ cycle' = cycle + 1
    /\ calls' = <<Call("FetchArticles", <<>>, TRUE)>>
    /\ dbAtStart' = DB
    /\ articles' = filterByDate(ecb.articles, CutoffDate)
    /\ dropped' = Cardinality({i \in DOMAIN ecb.articles :
                                  ecb.articles[i].PublishedAt <= CutoffDate})
    /\ saveErrs' = 0
    /\ stats' = ZeroStats
    /\ result' = NoResult
    /\ pc' = "filter"
    /\ UNCHANGED <<ecbOther, ctxDone, feed, feedEdited, publisher, faults, toSync,
                   isNew, articleID, state, dbAtSave, sumReported, sumRecorded,
                   prevClean>>

EcbInit ==
    /\ feed = <<>>
    /\ feedEdited = FALSE
    /\ publisher = FALSE
    /\ faults = 0
    /\ cycle = 0
    /\ pc = "idle"
    /\ articles = <<>>
    /\ toSync = <<>>
    /\ isNew = FALSE
    /\ articleID = 0
    /\ state = ZeroState(SourceID)
    /\ stats = ZeroStats
    /\ result = NoResult
    /\ calls = <<>>
    /\ dropped = 0
    /\ dbAtStart = EmptyDB
    /\ dbAtSave = EmptyDB
    /\ saveErrs = 0
    /\ sumReported = 0
    /\ sumRecorded = 0
    /\ prevClean = FALSE
    /\ EmptyTables
    /\ StoreIdle
    /\ SchedIdle
    /\ runs = NoRuns
    /\ \E pages \in ServerPages : ecb = [NoFetch EXCEPT !.pages = pages]

EcbNext ==
    \/ FetchArticles
    \/ DoRequestOK
    \/ DoRequestFail
    \/ BackoffElapsed
    \/ BackoffCancelled
    \/ CancelFetch
    \/ SyncFetchFail
    \/ SyncFetchOK

EcbSpec == EcbInit /\ [][EcbNext]_vars

(***************************************************************************)
(* Overlapping cycles.  Nothing in SyncService keeps two Sync calls for    *)
(* the same source apart; each of them ends in updateSyncState, which is   *)
(* a Get, an addition in memory and an Update, with no lock and no         *)
(* transaction around them.  Every run has finished its loop with some     *)
(* stats; the store calls succeed.  overlapped records that a run read     *)
(* the row while another run had read it and not yet written it; peak is   *)
(* the largest TotalSynced the table has held.                             *)
(***************************************************************************)
MaxOverlap == 2
\* the Sync calls that run at the same time

Procs == 1..MaxOverlap

RunStats == {[ZeroStats EXCEPT !.New = n, !.Updated = u] : n, u \in 0..1}

StoredTotal == SyncStateGet(syncStateRows, SourceID).TotalSynced

overlapOther ==
    <<articleRows, nextID, tagRows, articleTags, storeVars, schedVars, ecb,
      envVars, faults, pc, articles, loopVars, state, result, calls, dbAtSave,
      ghostVars>>

\* Get without the addition: the state is written back as it was read
RunGetNoAdd(p) ==
    /\ runs.proc[p].pc = "get"
    /\ runs' = [runs EXCEPT
                  !.proc[p].pc = "update",
                  !.proc[p].state = SyncStateGet(syncStateRows, SourceID),
                  !.overlapped = @ \/ \E q \in Procs \ {p} :
                                        runs.proc[q].pc = "update"]
    /\ UNCHANGED <<overlapOther, syncStateRows>>

\* state, err := s.syncState.Get(ctx, s.source.ID())
\* state.TotalSynced += int64(stats.New + stats.Updated)
RunGet(p) ==
    /\ runs.proc[p].pc = "get"
    /\ runs' = [runs EXCEPT
                  !.proc[p].pc = "update",
                  !.proc[p].state =
                      NextSyncState(SyncStateGet(syncStateRows, SourceID),
                                    runs.proc[p].stats),
                  !.overlapped = @ \/ \E q \in Procs \ {p} :
                                        runs.proc[q].pc = "update"]
    /\ UNCHANGED <<overlapOther, syncStateRows>>

\* return s.syncState.Update(ctx, state)
RunUpdate(p) ==
    /\ runs.proc[p].pc = "update"
    /\ syncStateRows' = SyncStateUpdate(syncStateRows, runs.proc[p].state)
    /\ runs' = [runs EXCEPT
                  !.proc[p].pc = "done",
                  !.peak = IF runs.proc[p].state.TotalSynced > @
                           THEN runs.proc[p].state.TotalSynced ELSE @]
    /\ UNCHANGED overlapOther

OverlapInit ==
    /\ feed = <<>>
    /\ feedEdited = FALSE
    /\ publisher = FALSE
    /\ faults = 0
    /\ cycle = 0
    /\ pc = "idle"
    /\ articles = <<>>
    /\ toSync = <<>>
    /\ isNew = FALSE
    /\ articleID = 0
    /\ state = ZeroState(SourceID)
    /\ stats = ZeroStats
    /\ result = NoResult
    /\ calls = <<>>
    /\ dropped = 0
    /\ dbAtStart = EmptyDB
    /\ dbAtSave = EmptyDB
    /\ saveErrs = 0
    /\ sumReported = 0
    /\ sumRecorded = 0
    /\ prevClean = FALSE
    /\ EmptyTables
    /\ StoreIdle
    /\ SchedIdle
    /\ ecb = NoFetch
    /\ \E sts \in [Procs -> RunStats] :
          runs = [proc |-> [p \in Procs |->
                               [pc |-> "get", stats |-> sts[p],
                                state |-> ZeroState(SourceID)]],
                  overlapped |-> FALSE, peak |-> 0]

OverlapNext == \E p \in Procs : RunGet(p) \/ RunUpdate(p)

OverlapSpec == OverlapInit /\ [][OverlapNext]_vars

(***************************************************************************)
(* Sync with a context that is cancelled during the persist loop.  From    *)
(* then on every call that takes the context fails (Fault); the moment is  *)
(* recorded in the call record.                                            *)
(***************************************************************************)
InLoop ==
    pc \in {"loop", "begin", "upsert", "tagUpsert", "linkDelete", "linkInsert",
            "commit", "publish"}

CancelSync ==
    /\ InLoop
    /\ ~ctxDone
    /\ ctxDone' = TRUE
    /\ calls' = Append(calls, Call("ctx.Done", <<>>, TRUE))
    /\ UNCHANGED <<storeVars, srcVars, schedPc, tickBuffered, tickCount, inFlight,
                   lastRun, envVars, faults, dbVars, pc, articles, loopVars, state,
                   result, dbAtSave, ghostVars>>

CancelNext == Next \/ CancelSync

CancelSpec == Init /\ [][CancelNext]_vars

SaveOps == {"GetExistingOne", "BeginTx", "Upsert", "UpsertBatch", "LinkToArticle", "Commit"}

PublishOps == {"PublishCreate", "PublishUpdate"}

\* the positions of the calls of the cycle that satisfy Test
CallsWhere(Test(_)) == {i \in DOMAIN calls : Test(calls[i])}

\* saveArticle returns an error exactly when one of its calls fails
FailedSaves == CallsWhere(LAMBDA c : c.op \in SaveOps /\ ~c.ok)

SaveAttempts == CallsWhere(LAMBDA c : c.op = "GetExistingOne")

Commits == CallsWhere(LAMBDA c : c.op = "Commit" /\ c.ok)

Publishes == CallsWhere(LAMBDA c : c.op \in PublishOps)

UpsertCalls(e) == CallsWhere(LAMBDA c : c.op = "Upsert" /\ c.arts[1].ExternalID = e)

UpsertsDone(e) == {i \in UpsertCalls(e) : calls[i].ok}

FetchFailed == calls # <<>> /\ calls[1] = Call("FetchArticles", <<>>, FALSE)

\* the persisted SyncState.TotalSynced of the source
TotalSynced(rows) ==
    IF SourceID \in DOMAIN rows THEN rows[SourceID].TotalSynced ELSE 0

SetMax(S) == CHOOSE m \in S : \A x \in S : x <= m

(***************************************************************************)
(* C1. When the fetch returns an error, Sync returns nil stats and the     *)
(* error "fetch articles: ...", the fetch is the only collaborator call of *)
(* the cycle, and every table, sync_state included, is as it was when the  *)
(* cycle started.                                                          *)
(***************************************************************************)
C1_FetchErrorAborts ==
    (pc = "returned" /\ FetchFailed) =>
        /\ result.nilStats
        /\ result.err = "fetch articles"
        /\ Len(calls) = 1
        /\ DB = dbAtStart

\* a fetch fails in a second cycle, with rows stored by the first
C1_Witness ==
    /\ pc = "returned"
    /\ FetchFailed
    /\ cycle = 2
    /\ DOMAIN articleRows # {}
    /\ TotalSynced(syncStateRows) > 0

(***************************************************************************)
(* C2. Per-record atomicity: after a saveArticle that returned an error,   *)
(* the tables articles, tags and article_tags are as they were before the  *)
(* attempt.                                                                *)
(***************************************************************************)
C2_FailedSaveLeavesNoWrites ==
    (pc = "loop" /\ calls # <<>>
       /\ calls[Len(calls)].op = "Rollback") =>
        /\ articleRows = dbAtSave.articles
        /\ tagRows = dbAtSave.tags
        /\ articleTags = dbAtSave.articleTags

C5_OneUpsertPerExternalID ==
    \A e \in ExternalIDs : Cardinality(UpsertCalls(e)) <= 1

(***************************************************************************)
(* C6. For every external id with a successful upsert in the cycle, the    *)
(* stored last-modified timestamp is the maximum of the one stored when    *)
(* the cycle started and those of the records upserted for the id.         *)
(***************************************************************************)
C6_StoredIsMaxLastModified ==
    \A e \in ExternalIDs :
        UpsertsDone(e) # {} =>
            /\ <<SourceID, e>> \in DOMAIN articleRows
            /\ articleRows[<<SourceID, e>>].LastModified =
                  SetMax({calls[i].arts[1].LastModified : i \in UpsertsDone(e)}
                         \cup (IF <<SourceID, e>> \in DOMAIN dbAtStart.articles
                               THEN {dbAtStart.articles[<<SourceID, e>>].LastModified}
                               ELSE {}))

\* an id is upserted twice in a cycle, the older version last
C6_Witness ==
    /\ pc = "returned"
    /\ \E e \in ExternalIDs : \E i, j \in UpsertsDone(e) :
          /\ i < j
          /\ calls[j].arts[1].LastModified < calls[i].arts[1].LastModified

(***************************************************************************)
(* C7. When Sync returns stats and no saveArticle failed in the cycle,     *)
(* New + Updated + Skipped = Fetched, whatever Publish did.                *)
(***************************************************************************)
C7_CountsAddUp ==
    (pc = "returned" /\ ~result.nilStats /\ FailedSaves = {}) =>
        result.stats.New + result.stats.Updated + result.stats.Skipped
            = result.stats.Fetched

\* a cycle with a skipped record, a saved one and a failed publish
C7_Witness ==
    /\ pc = "returned"
    /\ ~result.nilStats
    /\ FailedSaves = {}
    /\ \E i \in Publishes : ~calls[i].ok
    /\ result.stats.Skipped = 1
    /\ result.stats.New + result.stats.Updated = 1

(***************************************************************************)
(* C8 as stated. The persisted TotalSynced equals the sum of New + Updated *)
(* over the stats of all cycles so far.                                    *)
(***************************************************************************)
C8_TotalIsSumOfReported ==
    pc \in {"idle", "returned"} => TotalSynced(syncStateRows) = sumReported

(***************************************************************************)
(* C8 amended. The persisted TotalSynced equals the sum of New + Updated   *)
(* over the stats of the cycles in which Sync returned a nil error, that   *)
(* is, whose progress update succeeded.                                    *)
(***************************************************************************)
C8_TotalIsSumOfRecorded ==
    pc \in {"idle", "returned"} => TotalSynced(syncStateRows) = sumRecorded

\* two cycles have each added to the total
C8_Witness ==
    /\ pc = "returned"
    /\ cycle = 2
    /\ result.err = ""
    /\ stats.New + stats.Updated > 0
    /\ TotalSynced(syncStateRows) > stats.New + stats.Updated

(***************************************************************************)
(* C9. The persisted TotalSynced never decreases, whatever fails.          *)
(***************************************************************************)
C9_TotalNeverDecreases ==
    [][TotalSynced(syncStateRows') >= TotalSynced(syncStateRows)]_vars

\* a later cycle that had a failure leaves a total the first cycle set
C9_Witness ==
    /\ pc = "returned"
    /\ cycle = 2
    /\ faults > 0
    /\ result.err # ""
    /\ TotalSynced(syncStateRows) > 0

(***************************************************************************)
(* C10. Date filter: Fetched counts exactly the fetched records published  *)
(* strictly after the cutoff; no record at or before the cutoff is given   *)
(* to an existence query, an upsert, a tag-store call or a publish; and    *)
(* when no record survives no existence query is made.                     *)
(***************************************************************************)
C10_DateFilter ==
    /\ \A i \in DOMAIN calls : \A k \in DOMAIN calls[i].arts :
          calls[i].arts[k].PublishedAt > CutoffDate
    /\ \A k \in DOMAIN articles : articles[k].PublishedAt > CutoffDate
    /\ \A k \in DOMAIN toSync : toSync[k].PublishedAt > CutoffDate
    /\ pc = "filter" => Len(articles) = Len(feed) - dropped
    /\ (pc \in {"loop", "getState", "updateState"} \/ (pc = "returned" /\ ~result.nilStats))
          => stats.Fetched = Len(feed) - dropped
    /\ (pc # "idle" /\ dropped = Len(feed)) =>
          CallsWhere(LAMBDA c : c.op \in {"GetExistingBatch", "GetExistingOne"}) = {}

\* a record at the cutoff is dropped next to a record that is synced
C10_Witness ==
    /\ pc = "returned"
    /\ dropped = 1
    /\ \E k \in DOMAIN feed : feed[k].PublishedAt = CutoffDate
    /\ stats.Fetched = 1
    /\ stats.New = 1

(***************************************************************************)
(* The date-surviving articles of the cycle are the argument of the batch  *)
(* existence query; nothing is written between the start of the cycle and  *)
(* that query, so what the query sees is the table as the cycle found it.  *)
(***************************************************************************)
BatchQueried == Len(calls) >= 2 /\ calls[2].op = "GetExistingBatch"

Survivors == IF BatchQueried THEN calls[2].arts ELSE <<>>

StoredAtStart(a) == Key(a) \in DOMAIN dbAtStart.articles

\* not stored, or strictly newer than the stored version
Changed(a) ==
    \/ ~StoredAtStart(a)
    \/ a.LastModified > dbAtStart.articles[Key(a)].LastModified

Unchanged(a) == ~Changed(a)

(***************************************************************************)
(* C11. Change filter: when the batch existence query has returned, the    *)
(* selected records are exactly the date-surviving records that are not    *)
(* stored or are strictly newer than the stored version, in fetch order; a *)
(* record with an equal timestamp is not among them; and Skipped is the    *)
(* post-date-filter count minus the selected count.                        *)
(***************************************************************************)
C11_ChangeFilter ==
    (pc = "loop" /\ Len(calls) = 2 /\ BatchQueried /\ calls[2].ok) =>
        /\ toSync = SelectSeq(Survivors, Changed)
        /\ \A k \in DOMAIN toSync :
              StoredAtStart(toSync[k]) =>
                  toSync[k].LastModified # dbAtStart.articles[Key(toSync[k])].LastModified
        /\ stats.Fetched = Len(Survivors)
        /\ stats.Skipped = Len(Survivors) - Len(toSync)

\* of two stored records the edited one is selected and the tie is skipped
C11_Witness ==
    /\ pc = "loop"
    /\ Len(calls) = 2
    /\ BatchQueried
    /\ calls[2].ok
    /\ Len(toSync) = 1
    /\ stats.Skipped = 1
    /\ StoredAtStart(toSync[1])
    /\ \E k \in DOMAIN Survivors :
          /\ StoredAtStart(Survivors[k])
          /\ Survivors[k].LastModified
                = dbAtStart.articles[Key(Survivors[k])].LastModified

(***************************************************************************)
(* C12. A date-surviving record that the change filter does not select     *)
(* (it is stored and not strictly newer) is the argument of no existence   *)
(* re-query, no unit of work, no upsert, no tag-store call and no publish  *)
(* of the cycle; it is counted in Skipped, and New + Updated counts only   *)
(* records that were attempted.                                            *)
(***************************************************************************)
C12_SkippedRecordUntouched ==
    (BatchQueried /\ calls[2].ok) =>
        /\ \A k \in DOMAIN Survivors :
              Unchanged(Survivors[k]) =>
                  \A i \in DOMAIN calls :
                      i > 2 => calls[i].arts # <<Survivors[k]>>
        /\ stats.Skipped = Len(SelectSeq(Survivors, Unchanged))
        /\ stats.New + stats.Updated <= Cardinality(SaveAttempts)
        /\ Cardinality(SaveAttempts) <= Len(Survivors) - stats.Skipped

\* a cycle skips a stored record and saves and publishes another one
C12_Witness ==
    /\ pc = "returned"
    /\ BatchQueried
    /\ calls[2].ok
    /\ stats.Skipped = 1
    /\ stats.New + stats.Updated = 1
    /\ stats.Published = 1
    /\ \E k \in DOMAIN Survivors : Unchanged(Survivors[k])

FilterFailed == BatchQueried /\ ~calls[2].ok

(***************************************************************************)
(* C13. When the batch existence query of the change filter fails, Sync    *)
(* returns nil stats and the error "filter for sync: ...", the fetch and   *)
(* the query are the only collaborator calls of the cycle (no upsert, no   *)
(* tag-store call, no publish, no sync-state read or update), and every    *)
(* table is as the cycle found it.                                         *)
(***************************************************************************)
C13_FilterErrorAborts ==
    FilterFailed =>
        /\ pc = "returned"
        /\ result.nilStats
        /\ result.err = "filter for sync"
        /\ Len(calls) = 2
        /\ DB = dbAtStart

\* the query fails in a second cycle, with rows stored by the first
C13_Witness ==
    /\ pc = "returned"
    /\ FilterFailed
    /\ cycle = 2
    /\ DOMAIN articleRows # {}
    /\ TotalSynced(syncStateRows) > 0

\* the step in which Publish returns an error
PublishFailsNow ==
    /\ pc = "publish"
    /\ Len(calls') = Len(calls) + 1
    /\ calls'[Len(calls')].op \in PublishOps
    /\ ~calls'[Len(calls')].ok

(***************************************************************************)
(* C14. The step in which Publish fails for a record whose unit of work    *)
(* committed adds one to Errors, leaves Published as it is, counts the     *)
(* record as New or as Updated, leaves the tables as they are with the     *)
(* record's row stored, and moves the loop to the next selected record.    *)
(***************************************************************************)
C14_PublishFailureKeepsRecord ==
    [][PublishFailsNow =>
          /\ calls[Len(calls)].op = "Commit"
          /\ calls[Len(calls)].ok
          /\ stats'.Errors = stats.Errors + 1
          /\ stats'.Published = stats.Published
          /\ stats'.New = stats.New + (IF isNew THEN 1 ELSE 0)
          /\ stats'.Updated = stats.Updated + (IF isNew THEN 0 ELSE 1)
          /\ stats'.Skipped = stats.Skipped
          /\ articleRows' = articleRows
          /\ tagRows' = tagRows
          /\ articleTags' = articleTags
          /\ Key(Head(toSync)) \in DOMAIN articleRows'
          /\ toSync' = Tail(toSync)
          /\ pc' = "loop"]_vars

\* a record is saved after the publish of an earlier record failed
C14_Witness ==
    /\ pc = "getState"
    /\ \E i \in Publishes : \E j \in Commits : ~calls[i].ok /\ i < j
    /\ stats.Errors = 1
    /\ stats.Published = 1
    /\ stats.New + stats.Updated = 2

(***************************************************************************)
(* C15. Every publish of a cycle directly follows the successful commit of *)
(* the same record, and every call of that record's saveArticle has        *)
(* succeeded; the published record is published after the cutoff and was  *)
(* selected by the change filter.  So no record whose unit of work failed, *)
(* no skipped record and no date-filtered record is published.             *)
(***************************************************************************)
C15_PublishAfterPersist ==
    \A i \in Publishes :
        LET a == calls[i].arts[1]
        IN  /\ i - 1 \in Commits
            /\ \E j \in SaveAttempts :
                  /\ j < i
                  /\ \A k \in j..(i - 1) :
                        /\ calls[k].ok
                        /\ calls[k].arts = <<a>>
                        /\ calls[k].op \in SaveOps
                        /\ k > j => calls[k].op # "GetExistingOne"
                  /\ \E k \in j..(i - 1) : calls[k].op = "Upsert"
            /\ a.PublishedAt > CutoffDate
            /\ \E k \in DOMAIN Survivors : Survivors[k] = a
            /\ Changed(a)
            /\ Key(a) \in DOMAIN articleRows

\* one record's save fails and another record is saved and published
C15_Witness ==
    /\ pc = "returned"
    /\ FailedSaves # {}
    /\ \E i \in Publishes : calls[i].ok
    /\ stats.Published = 1
    /\ stats.Errors = 1

\* the persist loop of the cycle is over
LoopOver ==
    \/ pc \in {"getState", "updateState"}
    \/ pc = "returned" /\ ~result.nilStats

FailedPublishes == {i \in Publishes : ~calls[i].ok}

\* the row of the record of call i is stored, at least as new as the record
StoredFrom(i) ==
    LET a == calls[i].arts[1]
    IN  /\ Key(a) \in DOMAIN articleRows
        /\ articleRows[Key(a)].LastModified >= a.LastModified

(***************************************************************************)
(* C16. With no publisher configured no publish call is made and Published *)
(* stays 0; when the loop is over every selected record has been           *)
(* attempted, every record whose saveArticle returned nil is stored and    *)
(* counted as New or Updated, and Errors counts the failed saveArticle     *)
(* calls only.                                                             *)
(***************************************************************************)
C16_NilPublisher ==
    ~publisher =>
        /\ Publishes = {}
        /\ stats.Published = 0
        /\ LoopOver =>
              /\ Cardinality(SaveAttempts) = stats.Fetched - stats.Skipped
              /\ stats.New + stats.Updated = Cardinality(Commits)
              /\ stats.New + stats.Updated
                    = Cardinality(SaveAttempts) - Cardinality(FailedSaves)
              /\ stats.Errors = Cardinality(FailedSaves)
              /\ \A i \in Commits : StoredFrom(i)

\* without a publisher one record is stored as new and one as an update
C16_Witness ==
    /\ ~publisher
    /\ pc = "returned"
    /\ result.err = ""
    /\ stats.New = 1
    /\ stats.Updated = 1
    /\ stats.Errors = 0
    /\ stats.Published = 0

GetCalls == CallsWhere(LAMBDA c : c.op = "SyncStateGet")

UpdateCalls == CallsWhere(LAMBDA c : c.op = "SyncStateUpdate")

\* Sync got past the fetch and the change filter and has returned
PastFilterReturned == pc = "returned" /\ ~FetchFailed /\ ~FilterFailed

\* the calls of the persist loop and before
LoopCalls ==
    CallsWhere(LAMBDA c : c.op \notin {"SyncStateGet", "SyncStateUpdate"})

(***************************************************************************)
(* C17 as stated. Every cycle in which the fetch and the batch filter      *)
(* query succeed makes exactly one sync-state Get directly followed by     *)
(* exactly one Update, after the calls of the persist loop; the state      *)
(* given to Update has TotalSynced = the value read + New + Updated.       *)
(***************************************************************************)
C17_OneGetOneUpdate ==
    PastFilterReturned =>
        /\ Cardinality(GetCalls) = 1
        /\ Cardinality(UpdateCalls) = 1
        /\ GetCalls = {Len(calls) - 1}
        /\ UpdateCalls = {Len(calls)}
        /\ state.TotalSynced
              = TotalSynced(dbAtStart.syncState) + stats.New + stats.Updated

(***************************************************************************)
(* C17 amended. Every such cycle makes exactly one sync-state Get, after   *)
(* the calls of the persist loop and also when nothing was selected; when  *)
(* the Get returns no error it is directly followed by exactly one Update, *)
(* whose state has TotalSynced = the value read + New + Updated and is the *)
(* stored row when the Update succeeds; when the Get fails no Update is    *)
(* made and the stored row is unchanged.                                   *)
(***************************************************************************)
C17_OneGetThenUpdate ==
    PastFilterReturned =>
        /\ Cardinality(GetCalls) = 1
        /\ \A g \in GetCalls : \A i \in LoopCalls : i < g
        /\ \A g \in GetCalls :
              IF calls[g].ok
              THEN /\ g = Len(calls) - 1
                   /\ UpdateCalls = {Len(calls)}
                   /\ state.SourceID = SourceID
                   /\ state.TotalSynced
                         = TotalSynced(dbAtStart.syncState)
                           + stats.New + stats.Updated
                   /\ IF calls[Len(calls)].ok
                      THEN /\ SyncStateGet(syncStateRows, SourceID) = state
                           /\ DOMAIN syncStateRows = {SourceID}
                      ELSE syncStateRows = dbAtStart.syncState
              ELSE /\ g = Len(calls)
                   /\ UpdateCalls = {}
                   /\ syncStateRows = dbAtStart.syncState

\* a second cycle selects nothing and still writes the progress
C17_Witness ==
    /\ PastFilterReturned
    /\ cycle = 2
    /\ result.err = ""
    /\ stats.Skipped = 2
    /\ stats.New + stats.Updated = 0
    /\ UpdateCalls = {Len(calls)}
    /\ TotalSynced(syncStateRows) = 2

ProgressFailed ==
    /\ calls # <<>>
    /\ calls[Len(calls)].op \in {"SyncStateGet", "SyncStateUpdate"}
    /\ ~calls[Len(calls)].ok

(***************************************************************************)
(* C18. When the sync-state Get or Update fails, Sync returns the error    *)
(* "update sync state: ..." together with non-nil stats whose counters are *)
(* those of the persist loop (Fetched the post-date-filter count, Skipped  *)
(* the records not attempted, New + Updated the committed records,         *)
(* Published the successful publishes, Errors the failed saves and         *)
(* publishes); the committed records stay stored and the sync_state row is *)
(* as the cycle found it.                                                  *)
(***************************************************************************)
C18_ProgressFailureKeepsStats ==
    (pc = "returned" /\ ProgressFailed) =>
        /\ result.err = "update sync state"
        /\ ~result.nilStats
        /\ result.stats.Fetched = Len(feed) - dropped
        /\ result.stats.Skipped
              = result.stats.Fetched - Cardinality(SaveAttempts)
        /\ result.stats.New + result.stats.Updated = Cardinality(Commits)
        /\ result.stats.Published
              = Cardinality(Publishes) - Cardinality(FailedPublishes)
        /\ result.stats.Errors
              = Cardinality(FailedSaves) + Cardinality(FailedPublishes)
        /\ \A i \in Commits : StoredFrom(i)
        /\ syncStateRows = dbAtStart.syncState

\* the Update fails after a record was stored and published
C18_Witness ==
    /\ pc = "returned"
    /\ ProgressFailed
    /\ calls[Len(calls)].op = "SyncStateUpdate"
    /\ result.stats.New = 1
    /\ result.stats.Published = 1
    /\ DOMAIN articleRows # {}

(***************************************************************************)
(* C19 as stated. Sync returns a non-nil error only when the fetch or the  *)
(* batch filter query failed.                                              *)
(***************************************************************************)
C19_ErrorOnlyFromFetchOrFilter ==
    (pc = "returned" /\ result.err # "") => (FetchFailed \/ FilterFailed)

(***************************************************************************)
(* C19 amended. Sync returns a non-nil error only when the fetch, the      *)
(* batch filter query or the progress update (the sync-state Get or        *)
(* Update) failed; in every other execution the returned error is nil.     *)
(***************************************************************************)
C19_ErrorOnlyFromCycleSteps ==
    (pc = "returned" /\ result.err # "") =>
        (FetchFailed \/ FilterFailed \/ ProgressFailed)

\* the sync-state Get fails in a second cycle and Sync returns its error
C19_Witness ==
    /\ pc = "returned"
    /\ cycle = 2
    /\ result.err = "update sync state"
    /\ ~FetchFailed
    /\ ~FilterFailed
    /\ calls[Len(calls)].op = "SyncStateGet"

\* the fetch, the batch filter query and the progress update all succeeded
NoCycleFailure ==
    \A i \in DOMAIN calls :
        calls[i].op \in {"FetchArticles", "GetExistingBatch", "SyncStateGet",
                         "SyncStateUpdate"} => calls[i].ok

(***************************************************************************)
(* C20. When the fetch, the batch filter query and the progress update     *)
(* succeed, Sync returns a nil error and non-nil stats after its progress  *)
(* update, however many per-record calls (existence re-check, unit of      *)
(* work, upsert, tag upsert, tag link, publish) failed; Errors is the      *)
(* number of those failed records.                                         *)
(***************************************************************************)
C20_RecordFailuresNotReturned ==
    (pc = "returned" /\ NoCycleFailure) =>
        /\ result.err = ""
        /\ ~result.nilStats
        /\ calls[Len(calls)].op = "SyncStateUpdate"
        /\ result.stats.Errors
              = Cardinality(FailedSaves) + Cardinality(FailedPublishes)

\* a tag upsert fails for one record and Sync returns no error
C20_Witness ==
    /\ pc = "returned"
    /\ NoCycleFailure
    /\ result.err = ""
    /\ result.stats.Errors = 1
    /\ \E i \in FailedSaves : calls[i].op = "UpsertBatch"
    /\ cycle = 1

\* the last store call was an Upsert on a key that had a row
UpsertOnStored ==
    /\ last.op = "Upsert"
    /\ Key(last.arg) \in DOMAIN last.pre.articles

StoredBefore == last.pre.articles[Key(last.arg)]

StoredAfter == articleRows[Key(last.arg)]

(***************************************************************************)
(* C24. ArticleStore.Upsert on a key that already has a row returns the    *)
(* row's id and no error and leaves one row for the key; when the incoming *)
(* last-modified is strictly newer the stored attributes (title, published *)
(* timestamp) and last-modified are the incoming ones, otherwise the row   *)
(* is as it was.                                                           *)
(***************************************************************************)
C24_UpsertOverwritesIffNewer ==
    UpsertOnStored =>
        /\ last.ok
        /\ last.ret = StoredBefore.ID
        /\ DOMAIN articleRows = DOMAIN last.pre.articles
        /\ StoredAfter.ID = StoredBefore.ID
        /\ IF last.arg.LastModified > StoredBefore.LastModified
           THEN /\ StoredAfter.Title = last.arg.Title
                /\ StoredAfter.LastModified = last.arg.LastModified
                /\ StoredAfter.PublishedAt = last.arg.PublishedAt
           ELSE StoredAfter = StoredBefore

\* the claim without the published timestamp
C24_ExceptPublishedAt ==
    UpsertOnStored =>
        /\ last.ok
        /\ last.ret = StoredBefore.ID
        /\ DOMAIN articleRows = DOMAIN last.pre.articles
        /\ StoredAfter.ID = StoredBefore.ID
        /\ IF last.arg.LastModified > StoredBefore.LastModified
           THEN /\ StoredAfter.Title = last.arg.Title
                /\ StoredAfter.LastModified = last.arg.LastModified
           ELSE StoredAfter = StoredBefore

(***************************************************************************)
(* C25. Identity is source-scoped: the existence query for a source and a  *)
(* list of ids returns exactly the requested ids that have a row under     *)
(* that source, each with that row's last-modified, whatever is stored     *)
(* under another source; and an Upsert leaves every row of another source  *)
(* as it was.                                                              *)
(***************************************************************************)
C25_SourceScopedIdentity ==
    /\ last.op = "GetExisting" =>
          /\ last.ok
          /\ DOMAIN last.ret
                = {e \in Range(last.arg.ids) :
                      <<last.arg.SourceID, e>> \in DOMAIN articleRows}
          /\ \A e \in DOMAIN last.ret :
                last.ret[e] = articleRows[<<last.arg.SourceID, e>>].LastModified
          /\ DB = last.pre
    /\ last.op = "Upsert" =>
          \A k \in DOMAIN last.pre.articles :
              k[1] # last.arg.SourceID =>
                  /\ k \in DOMAIN articleRows
                  /\ articleRows[k] = last.pre.articles[k]

\* id 1 is stored under the other source only and the query for the source
\* does not return it
C25_Witness ==
    /\ last.op = "GetExisting"
    /\ last.arg.SourceID = SourceID
    /\ last.arg.ids = <<1, 2>>
    /\ <<"other", 1>> \in DOMAIN articleRows
    /\ <<SourceID, 1>> \notin DOMAIN articleRows
    /\ DOMAIN last.ret = {2}

LinksOf(links, id) == {l[2] : l \in {m \in links : m[1] = id}}

(***************************************************************************)
(* C26. Tag links are replaced, not merged: after a successful             *)
(* LinkToArticle with a non-empty list of tag ids the article is linked to *)
(* exactly those ids, whatever it was linked to before, and the links of   *)
(* the other articles are as they were.                                    *)
(***************************************************************************)
C26_LinksReplaced ==
    (last.op = "LinkToArticle" /\ last.ok /\ last.arg.tagIDs # <<>>) =>
        /\ LinksOf(articleTags, last.arg.articleID) = Range(last.arg.tagIDs)
        /\ \A l \in articleTags \cup last.pre.articleTags :
              l[1] # last.arg.articleID =>
                  (l \in articleTags <=> l \in last.pre.articleTags)

\* an article linked to tags 1 and 2 is linked again, to tag 3 alone
C26_Witness ==
    /\ last.op = "LinkToArticle"
    /\ last.ok
    /\ last.arg.tagIDs = <<3>>
    /\ LinksOf(last.pre.articleTags, last.arg.articleID) = {1, 2}
    /\ LinksOf(articleTags, last.arg.articleID) = {3}

(***************************************************************************)
(* C29. Tag labels are last-write-wins: UpsertBatch with one tag (id,      *)
(* label) succeeds and leaves the stored label of the id equal to the      *)
(* incoming label, for every stored vocabulary.                            *)
(***************************************************************************)
C29_LabelLastWriteWins ==
    (last.op = "UpsertBatch" /\ Len(last.arg) = 1) =>
        /\ last.ok
        /\ last.arg[1].ID \in DOMAIN tagRows
        /\ tagRows[last.arg[1].ID] = last.arg[1].Label

(***************************************************************************)
(* C27. SyncStateStore.Get for a source with no stored row returns, with   *)
(* no error and without creating a row, the state with that source id, a   *)
(* zero last-synced time and TotalSynced 0; for a source with a row it     *)
(* returns the row; after Update(state) the row of the state's source      *)
(* holds the state's LastSyncedAt, LastArticleID and TotalSynced, so Get   *)
(* returns those of the most recent Update; an Update adds a row only for  *)
(* a source that had none and leaves the rows of other sources alone.      *)
(***************************************************************************)
C27_SyncStateGetUpdate ==
    /\ last.op = "Get" =>
          /\ last.ok
          /\ DB = last.pre
          /\ last.ret.SourceID = last.arg
          /\ IF last.arg \in DOMAIN syncStateRows
             THEN /\ last.ret.LastSyncedAt = syncStateRows[last.arg].LastSyncedAt
                  /\ last.ret.LastArticleID = syncStateRows[last.arg].LastArticleID
                  /\ last.ret.TotalSynced = syncStateRows[last.arg].TotalSynced
             ELSE /\ last.ret.LastSyncedAt = 0
                  /\ last.ret.TotalSynced = 0
    /\ last.op = "Update" =>
          /\ last.ok
          /\ SyncStateGet(syncStateRows, last.arg.SourceID) = last.arg
          /\ DOMAIN syncStateRows
                = DOMAIN last.pre.syncState \cup {last.arg.SourceID}
          /\ \A src \in DOMAIN last.pre.syncState :
                src # last.arg.SourceID =>
                    syncStateRows[src] = last.pre.syncState[src]

\* a stored row is updated while another source has a row of its own
C27_Witness ==
    /\ last.op = "Update"
    /\ DOMAIN last.pre.syncState = StoreSources
    /\ last.pre.syncState[last.arg.SourceID].TotalSynced = 1
    /\ last.arg.TotalSynced = 2
    /\ syncStateRows[last.arg.SourceID].TotalSynced = 2

(***************************************************************************)
(* C28. WithTransaction commits when the work function returns nil and     *)
(* rolls back when it returns an error: after a work function that         *)
(* returned nil (and a Commit that succeeded) the rows written through the *)
(* transaction-scoped executor are stored; after a work function that      *)
(* returned an error those rows are absent, the rows that existed before   *)
(* are unchanged, and the error returned is the function's error.          *)
(***************************************************************************)
C28_CommitOrRollback ==
    txn.status = "returned" =>
        /\ (txn.fnErr = "" /\ txn.err = "") =>
              /\ articleRows = txn.writes @@ txn.pre
              /\ \A k \in DOMAIN txn.writes : articleRows[k] = txn.writes[k]
        /\ txn.fnErr # "" =>
              /\ txn.err = txn.fnErr
              /\ \A k \in DOMAIN txn.writes : k \notin DOMAIN articleRows
              /\ \A k \in DOMAIN txn.pre :
                    k \in DOMAIN articleRows /\ articleRows[k] = txn.pre[k]
              /\ articleRows = txn.pre

\* a failing function that wrote a row while another row was stored
C28_Witness ==
    /\ txn.status = "returned"
    /\ txn.fnErr = "canceled"
    /\ txn.writes # EmptyFn
    /\ txn.pre # EmptyFn
    /\ articleRows = txn.pre

\* a function that returned nil and whose row is stored
C28_WitnessCommit ==
    /\ txn.status = "returned"
    /\ txn.fnErr = "" /\ txn.err = ""
    /\ txn.writes # EmptyFn
    /\ txn.pre # EmptyFn

(***************************************************************************)
(* C23. The scheduler serializes cycles: at any moment at most one Sync    *)
(* invocation started by Scheduler.Start is in flight, also when a cycle   *)
(* takes longer than the tick interval; a cycle is in flight exactly when  *)
(* the goroutine of Start is inside runSync.                               *)
(***************************************************************************)
C23_OneCycleInFlight ==
    /\ inFlight <= 1
    /\ inFlight = 1 <=> schedPc \in {"first", "running"}

\* a cycle started by a tick outlasts two further ticks
C23_Witness ==
    /\ schedPc = "running"
    /\ inFlight = 1
    /\ tickBuffered
    /\ tickCount >= 3

\* saveArticle is between its existence query and its return
InSave ==
    pc \in {"begin", "upsert", "tagUpsert", "linkDelete", "linkInsert", "commit",
            "publish"}

\* the single-id existence query of the current saveArticle found no row
RecheckFoundNone == Key(Head(toSync)) \notin DOMAIN dbAtSave.articles

(***************************************************************************)
(* C21. For each selected record isNew is true exactly when the single-id  *)
(* existence query made immediately before that record's unit of work      *)
(* returned no entry, whatever the batch query returned; the same flag     *)
(* chooses the publish call (create or update) and decides whether New or  *)
(* Updated is incremented when the record has been saved.                  *)
(***************************************************************************)
C21_FlagFromRecheck == InSave => (isNew <=> RecheckFoundNone)

C21_FlagDecides ==
    (pc = "publish" /\ pc' = "loop") =>
        /\ stats'.New = stats.New + (IF RecheckFoundNone THEN 1 ELSE 0)
        /\ stats'.Updated = stats.Updated + (IF RecheckFoundNone THEN 0 ELSE 1)
        /\ publisher =>
              calls'[Len(calls')].op
                  = (IF RecheckFoundNone THEN "PublishCreate" ELSE "PublishUpdate")

C21_RecheckClassifies == []C21_FlagFromRecheck /\ [][C21_FlagDecides]_vars

\* a record absent when the cycle started is classified as an update
C21_Witness ==
    /\ pc = "publish"
    /\ ~isNew
    /\ ~StoredAtStart(Head(toSync))

\* the selected records of the cycle, in fetch order
Selected == SelectSeq(Survivors, Changed)

\* the calls of the persist loop made on behalf of one record
RecordOps == SaveOps \cup PublishOps \cup {"Rollback"}

IsRecheck(c) == c.op = "GetExistingOne"

\* the existence re-checks of the cycle so far, in the order they were made
Rechecks == SelectSeq(calls, IsRecheck)

TxBegins == CallsWhere(LAMBDA c : c.op = "BeginTx" /\ c.ok)

TxEnds == CallsWhere(LAMBDA c : c.op \in {"Commit", "Rollback"})

(***************************************************************************)
(* C22. The persist loop handles the selected records one after the other  *)
(* in fetch order: the k-th existence re-check of the cycle is for the     *)
(* k-th selected record, every unit-of-work and publish call directly      *)
(* follows a call for the same record (so all calls between two re-checks  *)
(* are for the record of the first), and between two units of work that    *)
(* were opened the first one was committed or rolled back.                 *)
(***************************************************************************)
C22_SequentialLoop ==
    /\ Len(Rechecks) <= Len(Selected)
    /\ \A k \in DOMAIN Rechecks : Rechecks[k].arts = <<Selected[k]>>
    /\ \A i \in DOMAIN calls :
          (calls[i].op \in RecordOps /\ ~IsRecheck(calls[i])) =>
              /\ i > 1
              /\ calls[i - 1].op \in RecordOps
              /\ calls[i - 1].arts = calls[i].arts
    /\ \A i, j \in TxBegins :
          i < j => \E k \in TxEnds : i < k /\ k < j
    /\ InSave => /\ calls[Len(calls)].op \in RecordOps
                 /\ calls[Len(calls)].arts = <<Head(toSync)>>

\* the second of two selected records is published after the first
C22_Witness ==
    /\ pc = "loop"
    /\ Cardinality(Commits) = 2
    /\ Len(Selected) = 2
    /\ Selected[1] # Selected[2]
    /\ Cardinality(CallsWhere(LAMBDA c : c.op \in PublishOps)) = 2

\* the records that passed the date filter have pairwise distinct ids
DistinctIDs ==
    \A i, j \in DOMAIN Survivors :
        i # j => Survivors[i].ExternalID # Survivors[j].ExternalID

\* the commits whose record has been counted in stats
CountedCommits ==
    IF pc = "publish" THEN Commits \ {SetMax(Commits)} ELSE Commits

\* new or update taken from the batch result agrees with the cycle so far
BatchClassifies ==
    /\ InSave => (isNew <=> ~StoredAtStart(Head(toSync)))
    /\ \A i \in DOMAIN calls :
          /\ calls[i].op = "PublishCreate" => ~StoredAtStart(calls[i].arts[1])
          /\ calls[i].op = "PublishUpdate" => StoredAtStart(calls[i].arts[1])
    /\ pc # "idle" =>
          /\ stats.New
                = Cardinality({i \in CountedCommits : ~StoredAtStart(calls[i].arts[1])})
          /\ stats.Updated
                = Cardinality({i \in CountedCommits : StoredAtStart(calls[i].arts[1])})

LinkedTags(a) ==
    {l[2] : l \in {m \in articleTags : m[1] = articleRows[Key(a)].ID}}

(***************************************************************************)
(* C35. A record whose unit of work failed is selected again by the next   *)
(* cycle's change filter, so no record is left for good with its row       *)
(* stored and its tags unlinked: when a cycle in which the change filter   *)
(* skipped a record as stored and unchanged has returned, the stored row   *)
(* is linked to every tag the record carries.                              *)
(***************************************************************************)
C35_SkippedRecordIsLinked ==
    (pc = "returned" /\ BatchQueried /\ calls[2].ok) =>
        \A k \in DOMAIN Survivors :
            LET a == Survivors[k]
            IN  (StoredAtStart(a) /\ Key(a) \in DOMAIN articleRows
                 /\ a.LastModified = dbAtStart.articles[Key(a)].LastModified) =>
                    Range(TagIDsOf(a.Tags)) \subseteq LinkedTags(a)

(***************************************************************************)
(* C36. Whenever a change notification is published for a record, the      *)
(* store holds at that moment a row for (source id, external id) whose     *)
(* last-modified timestamp equals the record's last-modified timestamp.    *)
(***************************************************************************)
C36_PublishedIsStored ==
    (pc = "publish" /\ publisher) =>
        /\ Key(Head(toSync)) \in DOMAIN articleRows
        /\ articleRows[Key(Head(toSync))].LastModified = Head(toSync).LastModified

(***************************************************************************)
(* C37. In every stats value returned by Sync: Published <= New + Updated  *)
(* <= Fetched - Skipped, Skipped <= Fetched, Errors is the number of       *)
(* failed saveArticle calls plus the number of failed Publish calls, and   *)
(* New + Updated plus the number of failed saveArticle calls is Fetched -  *)
(* Skipped.                                                                *)
(***************************************************************************)
C37_StatsRelations ==
    (pc = "returned" /\ ~result.nilStats) =>
        LET st == result.stats
        IN  /\ st.Published <= st.New + st.Updated
            /\ st.New + st.Updated <= st.Fetched - st.Skipped
            /\ st.Skipped <= st.Fetched
            /\ st.Errors = Cardinality(FailedSaves) + Cardinality(FailedPublishes)
            /\ st.New + st.Updated + Cardinality(FailedSaves)
                  = st.Fetched - st.Skipped
            /\ saveErrs = Cardinality(FailedSaves)

\* returned stats with a skipped record and a published one
C37_Witness ==
    /\ pc = "returned"
    /\ ~result.nilStats
    /\ result.stats.Fetched = 2
    /\ result.stats.Skipped = 1
    /\ result.stats.Published = 1

\* the calls made since the existence re-check of the current record
CallsOfSave ==
    {i \in DOMAIN calls :
        \A j \in DOMAIN calls : (j >= i) => ~IsRecheck(calls[j])}

(***************************************************************************)
(* C38. When a record is saved carrying an empty tag set, no tag-store     *)
(* call is made inside its unit of work, and the tag links and the tag     *)
(* vocabulary stay as they were when its saveArticle started; so the links *)
(* a stored record already had remain.                                     *)
(***************************************************************************)
C38_EmptyTagSetKeepsLinks ==
    (pc \in {"commit", "publish"} /\ Head(toSync).Tags = <<>>) =>
        /\ \A i \in CallsOfSave :
              calls[i].op \notin {"UpsertBatch", "LinkToArticle"}
        /\ articleTags = dbAtSave.articleTags
        /\ tagRows = dbAtSave.tags

\* a record with a stored tag link has been saved again with no tags
C38_Witness ==
    /\ pc = "publish"
    /\ Head(toSync).Tags = <<>>
    /\ \E l \in articleTags : l[1] = articleID

(***************************************************************************)
(* Sync under the assumption that a call that was made returns: a step of  *)
(* the cycle that can be taken is eventually taken.                        *)
(***************************************************************************)
LiveSpec == Spec /\ WF_vars(Next)

\* the place of a call in the handling of one record
Rank(op) ==
    CASE op = "GetExistingOne" -> 0
      [] op = "BeginTx" -> 1
      [] op = "Upsert" -> 2
      [] op = "UpsertBatch" -> 3
      [] op = "LinkToArticle" -> 4
      [] op \in {"Commit", "Rollback"} -> 5
      [] op \in PublishOps -> 6
      [] OTHER -> 7

CallsOf(op) == CallsWhere(LAMBDA c : c.op = op)

\* at most one call of each kind per cycle and per selected record
C34_BoundedCalls ==
    /\ \A op \in {"FetchArticles", "GetExistingBatch", "SyncStateGet",
                   "SyncStateUpdate"} : Cardinality(CallsOf(op)) <= 1
    /\ Len(Rechecks) <= Len(Selected)
    /\ \A i \in DOMAIN calls :
          (calls[i].op \in RecordOps /\ ~IsRecheck(calls[i])) =>
              /\ i > 1
              /\ Rank(calls[i - 1].op) < Rank(calls[i].op)
    /\ Len(calls) <= 4 + 7 * Len(Selected)

\* a cycle that has started returns
C34_Terminates == (pc \notin {"idle", "returned"}) ~> (pc = "returned")

(***************************************************************************)
(* C34. Sync terminates for every finite fetch result and makes a bounded  *)
(* number of collaborator calls: at most one fetch, one batch existence    *)
(* query, one sync-state Get and one Update per cycle, and per selected    *)
(* record at most one existence re-query, one unit of work (with at most   *)
(* one upsert, one tag batch upsert and one tag link call) and one         *)
(* publish.                                                                *)
(***************************************************************************)
C34_TerminatesWithBoundedCalls == []C34_BoundedCalls /\ C34_Terminates

\* a cycle has returned after handling two records with all their calls
C34_Witness ==
    /\ pc = "returned"
    /\ Len(Selected) = 2
    /\ Cardinality(CallsOf("LinkToArticle")) >= 1
    /\ Cardinality(Publishes) = 2
    /\ Cardinality(CallsOf("SyncStateUpdate")) = 1

\* the context was cancelled in the current cycle
Cancelled == CallsOf("ctx.Done") # {}

CancelAt == CHOOSE i \in CallsOf("ctx.Done") : TRUE

\* the saveArticle calls that started after the cancellation
SavesAfterCancel == {i \in SaveAttempts : i > CancelAt}

(***************************************************************************)
(* C32. Cancellation is not handled specially: when the context is         *)
(* cancelled during the persist loop, every later collaborator call fails, *)
(* Sync does not leave the loop early, each remaining selected record is   *)
(* attempted and counted as one error, the progress update is still        *)
(* attempted, and its failure is what Sync returns as error, together      *)
(* with the stats.                                                         *)
(***************************************************************************)
C32_CancelledLoopRunsOn ==
    Cancelled =>
        /\ \A i \in DOMAIN calls :
              (i > CancelAt /\ calls[i].op # "Rollback") => ~calls[i].ok
        /\ pc \in {"getState", "updateState", "returned"} =>
              /\ Len(Rechecks) = Len(Selected)
              /\ \A i \in SavesAfterCancel : i \in FailedSaves
              /\ stats.Errors = Cardinality(FailedSaves) + Cardinality(FailedPublishes)
              /\ stats.Errors >= Cardinality(SavesAfterCancel)
              /\ stats.New + stats.Updated + Cardinality(FailedSaves) = Len(Selected)
        /\ pc = "returned" =>
              /\ calls[Len(calls)] = Call("SyncStateGet", <<>>, FALSE)
              /\ result.err = "update sync state"
              /\ ~result.nilStats
              /\ result.stats = stats
              /\ syncStateRows = dbAtStart.syncState

\* cancelled after the first of two records was saved
C32_Witness ==
    /\ pc = "returned"
    /\ Cancelled
    /\ Len(Selected) = 2
    /\ stats.New = 1
    /\ Cardinality(SavesAfterCancel) = 1
    /\ stats.Errors = 1

(***************************************************************************)
(* C39. Once the scheduler's context is cancelled, Scheduler.Start starts  *)
(* no further Sync cycle: no step taken with the context cancelled raises  *)
(* the number of Sync invocations in flight.                               *)
(***************************************************************************)
C39_NoCycleAfterCancel == [][ctxDone => inFlight' <= inFlight]_vars

\* the rest of C39: after the cancellation Start eventually returns, it
\* returns only after a cancellation, and after a cycle that returned an
\* error the next tick starts a cycle unless the context is cancelled first
C39_EventuallyReturns ==
    /\ (ctxDone /\ schedPc # "new") ~> (schedPc = "stopped")
    /\ [](schedPc = "stopped" => ctxDone)
    /\ (schedPc = "select" /\ lastRun = "error" /\ tickBuffered /\ ~ctxDone)
          ~> (schedPc = "running" \/ ctxDone)

(***************************************************************************)
(* C31, C33: the ECB source and what Sync does with a failed fetch.        *)
(***************************************************************************)
RECURSIVE ContentBefore(_, _)
\* the content of pages 0..k-1 in order
ContentBefore(pages, k) ==
    IF k = 0 THEN <<>>
    ELSE ContentBefore(pages, k - 1) \o Response(pages, k - 1).Content

SourceFailed == ecb.pc \in {"done", "synced"} /\ ecb.err # ""

\* C31: when the source fails on page k after pages 0..k-1 were fetched,
\* FetchArticles returns the articles of pages 0..k-1 together with an
\* error, and Sync discards them: it returns nil stats and "fetch articles",
\* its only collaborator call of the cycle is the fetch, and the tables,
\* the progress row included, are as they were.
C31_PartialFetchDiscarded ==
    SourceFailed =>
        /\ ecb.articles = transform(ContentBefore(ecb.pages, ecb.page))
        /\ ecb.pc = "synced" =>
              /\ pc = "returned"
              /\ result = Returned("fetch articles", TRUE, ZeroStats)
              /\ calls = <<Call("FetchArticles", <<>>, FALSE)>>
              /\ articles = <<>>
              /\ toSync = <<>>
              /\ DB = dbAtStart
              /\ DB = EmptyDB

\* the fetch failed on page 1 or later with articles in hand and Sync has
\* returned
C31_Witness ==
    /\ SourceFailed
    /\ ecb.pc = "synced"
    /\ ecb.page >= 1
    /\ ecb.articles # <<>>

\* the positions of the log that are requests for page p
RequestsFor(p) ==
    {i \in DOMAIN ecb.log : ecb.log[i].kind = "req" /\ ecb.log[i].page = p}

\* C33: fetchPage issues at most maxAttempts requests for a page and none
\* after a successful one; a backoff wait follows a failed request that was
\* not the last attempt and nothing else, so there is no wait after the
\* last attempt; a context cancelled during a wait ends fetchPage with the
\* context's error and no further request; and Sync calls FetchArticles
\* once, whatever it returns.
C33_RetryOnlyInSource ==
    /\ \A p \in 0..MaxServerPages :
          /\ Cardinality(RequestsFor(p)) <= MaxAttempts
          /\ \A i \in RequestsFor(p) :
                ecb.log[i].ok => \A j \in RequestsFor(p) : j <= i
    /\ \A i \in DOMAIN ecb.log :
          /\ ecb.log[i].kind = "wait" =>
                /\ i > 1
                /\ ecb.log[i - 1] = Req(ecb.log[i].page, FALSE)
                /\ Cardinality({j \in RequestsFor(ecb.log[i].page) : j < i})
                      < MaxAttempts
          /\ (ecb.log[i].kind = "req" /\ ~ecb.log[i].ok /\ i < Len(ecb.log)) =>
                ecb.log[i + 1] = Wait(ecb.log[i].page)
    /\ ecb.err = "attempts" =>
          /\ ecb.log[Len(ecb.log)] = Req(ecb.page, FALSE)
          /\ Cardinality(RequestsFor(ecb.page)) = MaxAttempts
    /\ ecb.err = "context" =>
          /\ ctxDone
          /\ ecb.log[Len(ecb.log)] = Wait(ecb.page)
    /\ ecb.pc = "synced" =>
          Len(SelectSeq(calls, LAMBDA c : c.op = "FetchArticles")) = 1

\* a wait was cut short by the cancellation after pages had been fetched
C33_Witness ==
    /\ ecb.pc = "synced"
    /\ ecb.err = "context"
    /\ ecb.page >= 1
    /\ \E p \in 0..MaxServerPages : Cardinality(RequestsFor(p)) = MaxAttempts

(***************************************************************************)
(* C40: overlapping progress updates.                                      *)
(***************************************************************************)
RECURSIVE DoneSum(_)
\* the sum of New + Updated over the runs 1..n that have written their state
DoneSum(n) ==
    IF n = 0 THEN 0
    ELSE DoneSum(n - 1)
         + IF runs.proc[n].pc = "done"
           THEN runs.proc[n].stats.New + runs.proc[n].stats.Updated
           ELSE 0

\* C40: the progress update is an unlocked read-then-write.  TotalSynced
\* never exceeds the sum of the finished runs' New + Updated; it equals
\* that sum and has never gone down as long as no run read the row between
\* another run's Get and Update, and only then: with two overlapping runs
\* a state is reachable in which an increment is lost and TotalSynced has
\* gone down (C40_Witness).
C40_TotalNeedsSerializedCycles ==
    /\ StoredTotal <= DoneSum(MaxOverlap)
    /\ ~runs.overlapped =>
          /\ StoredTotal = DoneSum(MaxOverlap)
          /\ StoredTotal = runs.peak

\* every run has written its state, an increment is missing from
\* TotalSynced and TotalSynced is below a value it held before
C40_Witness ==
    /\ \A p \in Procs : runs.proc[p].pc = "done"
    /\ runs.overlapped
    /\ StoredTotal < DoneSum(MaxOverlap)
    /\ StoredTotal < runs.peak

====
